---- MODULE Spec2Model ----
(***************************************************************************)
(* Drug-interaction backend: the datasets loaded at start-up               *)
(* (utils/data_loader.py), the check-interactions, search-drug, stats and  *)
(* verify-prescription request handlers (routes/interactions.py,           *)
(* search.py, health.py, verification.py) and the medical-file handlers    *)
(* with their stores (routes/medical_files.py, utils/database.py).         *)
(*                                                                         *)
(* A Python str is a sequence of one-character strings, so that lower(),   *)
(* replace() and the ordering used by sorted() are computed character by   *)
(* character.  A DrugBank identifier is a sequence of tokens, one of which *)
(* may be the "Compound::" prefix of the CSV file.  A Python dict is the   *)
(* sequence of its items in insertion order.                               *)
(***************************************************************************)
EXTENDS Integers, Sequences, FiniteSets, Bags, TLC

VARIABLES
    dataset_csv,      \* rows of dataset/data_final_v5.csv, in file order
    dataset_json,     \* items of dataset/drugs_synonyms.json, in file order
    interactions_df,  \* data_loader.interactions_df
    name_to_id,       \* data_loader.name_to_id
    id_to_name,       \* data_loader.id_to_name
    phase,            \* "import" before load_data() has run, then "serving"
    response,         \* the response of the request being answered
    trace,            \* what the handler of that request looked at
    missing_files,    \* the dataset files that are absent from dataset/
    api_key,          \* whether os.getenv("GEMINI_API_KEY") is set
    PATIENTS_DB,      \* medical_files.PATIENTS_DB: patient_id -> PatientProfile
    FILES_DB,         \* medical_files.FILES_DB: file_id -> MedicalFile
    patients_table,   \* the patients table of patients.db
    storage_dir,      \* the bag of files in medical_files/, each the id and name it was written under
    clock,            \* the time of day, as a count of the writes so far
    uploading         \* the bag of upload requests suspended at await file.read()

vars == <<dataset_csv, dataset_json, interactions_df, name_to_id, id_to_name,
          phase, response, trace, missing_files, api_key, PATIENTS_DB,
          FILES_DB, patients_table, storage_dir, clock, uploading>>

\* the datasets on disk and the environment
environment == <<dataset_csv, dataset_json, missing_files, api_key>>

\* the Synonym Index and the Interaction Table
tables == <<interactions_df, name_to_id, id_to_name>>

\* the state of the medical-file service
stores == <<PATIENTS_DB, FILES_DB, patients_table, storage_dir, clock>>

-----------------------------------------------------------------------------
(* Bounds *)

MaxDrugs == 3       \* longest drug list of a request
MaxSynonyms == 2    \* longest synonym list of one identifier
MaxRows == 2        \* most rows of the interaction dataset
MaxClock == 2       \* most requests that write a time stamp, most files on disk
MaxInFlight == 2    \* most upload requests that are suspended together

-----------------------------------------------------------------------------
(* Python values *)

None == <<>>

\* float('nan'), which pandas gives for an empty cell: a value that is no str
NaN == <<"NaN">>

\* code points of the characters in use
Ord(c) ==
    CASE c = "(" -> 40 [] c = ")" -> 41 [] c = "*" -> 42 [] c = "+" -> 43
      [] c = "." -> 46 [] c = "A" -> 65 [] c = "B" -> 66 [] c = "C" -> 67
      [] c = "a" -> 97 [] c = "b" -> 98 [] c = "c" -> 99 [] c = "x" -> 120
      [] c = "y" -> 121 [] c = "z" -> 122

LowerChar(c) ==
    CASE c = "A" -> "a" [] c = "B" -> "b" [] c = "C" -> "c" [] OTHER -> c

\* str.lower()
lower(s) == [i \in 1..Len(s) |-> LowerChar(s[i])]

\* s < t for two str: the first differing code point decides, a proper
\* prefix is smaller
StrLess(s, t) ==
    \E k \in 1..(Len(t)) :
        /\ k <= Len(s) + 1
        /\ \A i \in 1..(k - 1) : s[i] = t[i]
        /\ \/ k = Len(s) + 1
           \/ k <= Len(s) /\ Ord(s[k]) < Ord(t[k])

\* the pair left in query order
sorted_omitted(a, b) == <<a, b>>

\* sorted([a, b])
sorted(a, b) == IF StrLess(b, a) THEN <<b, a>> ELSE <<a, b>>

\* str.find(sub) + 1: the position of the leftmost occurrence, 0 if none
find(s, sub) ==
    LET occ == {i \in 1..(Len(s) - Len(sub) + 1) :
                    SubSeq(s, i, i + Len(sub) - 1) = sub}
    IN  IF occ = {} THEN 0 ELSE CHOOSE i \in occ : \A j \in occ : i <= j

\* str.replace(old, new, 1)
replace(s, old, new) ==
    LET p == find(s, old)
    IN  IF p = 0 THEN s
        ELSE SubSeq(s, 1, p - 1) \o new \o SubSeq(s, p + Len(old), Len(s))

\* pandas Series.str.replace('Compound::', ''): every occurrence is removed
str_replace_prefix(cell) == SelectSeq(cell, LAMBDA tok : tok # "Compound::")

\* dict.setdefault(k, v): a key that is present keeps its value
DictSetDefault(d, k, v) ==
    IF \E i \in 1..Len(d) : d[i].key = k THEN d
    ELSE Append(d, [key |-> k, value |-> v])

\* dict: k in d, d[k], d[k] = v
DictHas(d, k) == \E i \in 1..Len(d) : d[i].key = k
DictGet(d, k) == d[CHOOSE i \in 1..Len(d) : d[i].key = k].value
DictSet(d, k, v) ==
    IF DictHas(d, k)
    THEN [i \in 1..Len(d) |->
            IF d[i].key = k THEN [key |-> k, value |-> v] ELSE d[i]]
    ELSE Append(d, [key |-> k, value |-> v])

RECURSIVE DictFromItems(_, _)
DictFromItems(items, d) ==
    IF items = <<>> THEN d
    ELSE DictFromItems(Tail(items),
                       DictSet(d, Head(items).key, Head(items).value))

\* itertools.combinations(s, 2), as positions
RECURSIVE CombFrom(_, _, _)
CombFrom(n, i, j) ==
    IF i >= n THEN <<>>
    ELSE IF j > n THEN CombFrom(n, i + 1, i + 2)
    ELSE <<[i |-> i, j |-> j]>> \o CombFrom(n, i, j + 1)

combinations(s) == CombFrom(Len(s), 1, 2)

-----------------------------------------------------------------------------
(* utils/data_loader.py *)

\* the DataFrame after the prefix is stripped and the columns are renamed
read_interactions(csv) ==
    [r \in 1..Len(csv) |->
        [Drug1ID |-> str_replace_prefix(csv[r].Drug1),
         Drug2ID |-> str_replace_prefix(csv[r].Drug2),
         Interaction |-> csv[r].Interaction]]

\* (name.lower(), drug_id) for drug_id, names in synonyms.items() for name in names
RECURSIVE NameItems(_)
NameItems(synonyms) ==
    IF synonyms = <<>> THEN <<>>
    ELSE [n \in 1..Len(Head(synonyms).names) |->
             [key |-> lower(Head(synonyms).names[n]),
              value |-> Head(synonyms).id]]
         \o NameItems(Tail(synonyms))

build_name_to_id(synonyms) == DictFromItems(NameItems(synonyms), <<>>)

\* {drug_id: names[0] for drug_id, names in synonyms.items()}
build_id_to_name(synonyms) ==
    DictFromItems([e \in 1..Len(synonyms) |->
                      [key |-> synonyms[e].id, value |-> synonyms[e].names[1]]],
                  <<>>)

\* the two files load_data opens
DatasetFiles == {"dataset/data_final_v5.csv", "dataset/drugs_synonyms.json"}

\* load_data raises: FileNotFoundError, re-raised as RuntimeError, when a
\* file is absent; IndexError at names[0] when an identifier lists no name
load_raises(missing, synonyms) ==
    \/ missing # {}
    \/ \E e \in 1..Len(synonyms) : synonyms[e].names = <<>>

-----------------------------------------------------------------------------
(* routes/interactions.py *)

Placeholder == <<"(", ".", "*", ")">>

\* the length test off by one
too_few_drugs_below_one(drug_names) == Len(drug_names) < 1

too_few_drugs(drug_names) == Len(drug_names) < 2

\* the lookup that falls back on the first key containing the name
get_id_or_partial(n2i, name) ==
    IF DictHas(n2i, lower(name)) THEN DictGet(n2i, lower(name))
    ELSE IF \E i \in 1..Len(n2i) : find(n2i[i].key, lower(name)) # 0
    THEN n2i[CHOOSE i \in 1..Len(n2i) :
                /\ find(n2i[i].key, lower(name)) # 0
                /\ \A j \in 1..(i - 1) : find(n2i[j].key, lower(name)) = 0].value
    ELSE None

\* name_to_id.get(name.lower()); None when the name is no key
get_id(n2i, name) ==
    IF DictHas(n2i, lower(name)) THEN DictGet(n2i, lower(name)) ELSE None

\* [drug_id for drug_id in drug_ids if drug_id]: None and "" are dropped
\* the filter that also drops an identifier that an earlier name gave
valid_ids_of_deduplicated(drug_ids) ==
    LET keep == {p \in 1..Len(drug_ids) :
                    /\ drug_ids[p] # None
                    /\ \A q \in 1..(p - 1) : drug_ids[q] # drug_ids[p]}
    IN  [k \in 1..Cardinality(keep) |->
            drug_ids[CHOOSE p \in keep :
                         Cardinality({q \in keep : q <= p}) = k]]

valid_ids_of(drug_ids) == SelectSeq(drug_ids, LAMBDA drug_id : drug_id # None)

\* the length test off by one
too_few_ids_below_one(valid_ids) == Len(valid_ids) < 1

too_few_ids(valid_ids) == Len(valid_ids) < 2

\* the mask without its second disjunct: rows stored as (id1, id2) only
lookup_one_orientation(df, id1, id2) ==
    SelectSeq(df, LAMBDA row : row.Drug1ID = id1 /\ row.Drug2ID = id2)

\* the rows selected by the boolean mask, in DataFrame order
lookup(df, id1, id2) ==
    SelectSeq(df, LAMBDA row :
        \/ row.Drug1ID = id1 /\ row.Drug2ID = id2
        \/ row.Drug1ID = id2 /\ row.Drug2ID = id1)

\* interaction.iloc[-1]['Interaction']
last_description(interaction) == interaction[Len(interaction)].Interaction

\* interaction.iloc[0]['Interaction']
first_description(interaction) == interaction[1].Interaction

\* id_to_name.get(drug_id, default)
get_name(i2n, drug_id, default) ==
    IF DictHas(i2n, drug_id) THEN DictGet(i2n, drug_id) ELSE default

render(description, drug1_name, drug2_name) ==
    IF find(description, Placeholder) # 0
    THEN replace(replace(description, Placeholder, drug1_name),
                 Placeholder, drug2_name)
    ELSE description

finding(df, i2n, id1, id2) ==
    LET drug1_name == get_name(i2n, id1, id1)
        drug2_name == get_name(i2n, id2, id2)
    IN  [pair |-> sorted(drug1_name, drug2_name),
         description |-> render(first_description(lookup(df, id1, id2)),
                                drug1_name, drug2_name)]

\* "(.*)" in description raises TypeError when the description is no str
descriptions_are_str(df, valid_ids) ==
    \A p \in {combinations(valid_ids)[k] : k \in 1..Len(combinations(valid_ids))} :
        LET interaction == lookup(df, valid_ids[p.i], valid_ids[p.j])
        IN  interaction # <<>> => first_description(interaction) # NaN

RECURSIVE found_interactions_of(_, _, _, _)
found_interactions_of(df, i2n, valid_ids, pairs) ==
    IF pairs = <<>> THEN <<>>
    ELSE LET id1 == valid_ids[Head(pairs).i]
             id2 == valid_ids[Head(pairs).j]
             rest == found_interactions_of(df, i2n, valid_ids, Tail(pairs))
         IN  IF lookup(df, id1, id2) # <<>>
             THEN <<finding(df, i2n, id1, id2)>> \o rest
             ELSE rest

\* the flag never cleared
is_safe_always(found_interactions) == TRUE

is_safe_of(found_interactions) == found_interactions = <<>>

message_of(found_interactions) ==
    IF found_interactions # <<>>
    THEN <<"Found ", Len(found_interactions), " potential interaction(s).">>
    ELSE <<"No interactions found. This combination appears to be safe.">>

\* what the handler consulted: the names passed to name_to_id.get, the
\* identifiers kept, and one entry per mask evaluated on the DataFrame
NoTrace == [resolved |-> <<>>, valid_ids |-> <<>>, lookups |-> <<>>]

\* the loop of lines 33-54 ends at the first pair found whose description
\* is NaN: the test of line 48 raises TypeError, and no later mask is made
lookups_of(df, valid_ids) ==
    LET pairs == combinations(valid_ids)
        entry(k) ==
            LET id1 == valid_ids[pairs[k].i]
                id2 == valid_ids[pairs[k].j]
                interaction == lookup(df, id1, id2)
            IN  [i |-> pairs[k].i, j |-> pairs[k].j, id1 |-> id1, id2 |-> id2,
                 found |-> interaction # <<>>,
                 description |-> IF interaction # <<>>
                                 THEN first_description(interaction)
                                 ELSE None]
        raising == {k \in 1..Len(pairs) :
                       entry(k).found /\ entry(k).description = NaN}
        last == IF raising = {} THEN Len(pairs)
                ELSE CHOOSE k \in raising : \A q \in raising : k <= q
    IN  [k \in 1..last |-> entry(k)]

check_interactions_trace(df, n2i, drug_names) ==
    IF too_few_drugs(drug_names) THEN NoTrace
    ELSE LET drug_ids == [n \in 1..Len(drug_names) |-> get_id(n2i, drug_names[n])]
             valid_ids == valid_ids_of(drug_ids)
         IN  [resolved |-> drug_names,
              valid_ids |-> valid_ids,
              lookups |-> IF too_few_ids(valid_ids) THEN <<>>
                          ELSE lookups_of(df, valid_ids)]

HTTPException(op, drug_names, status_code, detail) ==
    [op |-> op, drugs |-> drug_names, status |-> status_code,
     detail |-> detail, body |-> None]

check_interactions(df, n2i, i2n, drug_names) ==
    IF too_few_drugs(drug_names)
    THEN HTTPException("check_interactions", drug_names, 400,
                       "Please provide at least two drugs to check.")
    ELSE
    LET drug_ids == [n \in 1..Len(drug_names) |-> get_id(n2i, drug_names[n])]
        valid_ids == valid_ids_of(drug_ids)
    IN  IF too_few_ids(valid_ids)
        THEN HTTPException("check_interactions", drug_names, 404,
               "Could not identify at least two of the provided drugs in the database.")
        ELSE IF ~descriptions_are_str(df, valid_ids)
        THEN HTTPException("check_interactions", drug_names, 500,
                           "Internal Server Error")
        ELSE
        LET found_interactions ==
                found_interactions_of(df, i2n, valid_ids, combinations(valid_ids))
        IN  [op |-> "check_interactions", drugs |-> drug_names, status |-> 200,
             detail |-> "",
             body |-> [is_safe |-> is_safe_of(found_interactions),
                       message |-> message_of(found_interactions),
                       checked_drugs |->
                           [n \in 1..Len(valid_ids) |->
                               get_name(i2n, valid_ids[n], <<"U", "n", "k", "n", "o", "w", "n">>)],
                       interactions |-> found_interactions]]

-----------------------------------------------------------------------------
(* routes/search.py *)

\* partial_matches[:10]
PartialMatchLimit == 10

\* the slice that keeps everything
Prefix_whole(s, n) == s

\* s[:n]
Prefix(s, n) == SubSeq(s, 1, IF Len(s) < n THEN Len(s) ELSE n)

\* the items of name_to_id whose key contains the term, in dict order
partial_matches_of(n2i, i2n, drug_name_lower) ==
    LET hits == SelectSeq(n2i, LAMBDA item : find(item.key, drug_name_lower) # 0)
    IN  [k \in 1..Len(hits) |->
            [drug_id |-> hits[k].value,
             primary_name |-> get_name(i2n, hits[k].value, hits[k].value),
             matched_name |-> hits[k].key]]

\* the exact-match test that never succeeds
exact_match_never(n2i, drug_name_lower) == FALSE

\* drug_name_lower in name_to_id
exact_match(n2i, drug_name_lower) == DictHas(n2i, drug_name_lower)

search_drug(n2i, i2n, drug_name) ==
    LET drug_name_lower == lower(drug_name)
        partial_matches == partial_matches_of(n2i, i2n, drug_name_lower)
        body ==
            IF exact_match(n2i, drug_name_lower)
            THEN LET drug_id == DictGet(n2i, drug_name_lower)
                 IN  [found |-> TRUE,
                      primary_name |-> get_name(i2n, drug_id, drug_id),
                      drug_id |-> drug_id,
                      search_term |-> drug_name,
                      partial_matches |-> None,
                      message |-> None]
            ELSE IF partial_matches # <<>>
            THEN [found |-> FALSE,
                  primary_name |-> None,
                  drug_id |-> None,
                  search_term |-> drug_name,
                  partial_matches |-> Prefix(partial_matches, PartialMatchLimit),
                  message |-> <<"Found ", Len(partial_matches), " partial matches">>]
            ELSE [found |-> FALSE,
                  primary_name |-> None,
                  drug_id |-> None,
                  search_term |-> drug_name,
                  partial_matches |-> None,
                  message |-> <<"No matches found">>]
    IN  [op |-> "search_drug", drugs |-> <<drug_name>>, status |-> 200,
         detail |-> "", body |-> body]

-----------------------------------------------------------------------------
(* routes/health.py *)

\* the handler that reports the number of rows as the number of drugs
get_stats_counting_rows(df, i2n) ==
    [op |-> "get_stats", drugs |-> <<>>, status |-> 200, detail |-> "",
     body |-> [total_drugs |-> Len(df),
               total_interactions |-> Len(df),
               database_info |->
                   [interaction_file |-> "all_id_interaction.csv",
                    synonyms_file |-> "drugs_synonyms.json"]]]

get_stats(df, i2n) ==
    [op |-> "get_stats", drugs |-> <<>>, status |-> 200, detail |-> "",
     body |-> [total_drugs |-> Len(i2n),
               total_interactions |-> Len(df),
               database_info |->
                   [interaction_file |-> "all_id_interaction.csv",
                    synonyms_file |-> "drugs_synonyms.json"]]]

-----------------------------------------------------------------------------
(* main.py: routing of GET requests to the statistics handler *)

\* GET path, for a path that no other GET route matches: the health router
\* is included without a prefix, so the path of the statistics route is the
\* one the decorator gives; the application answers 404 when no route
\* matches the path
route_get(path, df, i2n) ==
    IF path = "/stats"
    THEN [get_stats(df, i2n) EXCEPT !.drugs = <<path>>]
    ELSE HTTPException("not_found", <<path>>, 404, "Not Found")

-----------------------------------------------------------------------------
(* routes/verification.py *)

\* A text of the external model is a sequence of tokens: a code fence, the
\* word json, white space, or a whole document.  The documents in use:
DocGreen == "{\"overall\":\"green\",\"alerts\":[]}"
DocRed == "{\"overall\":\"red\",\"alerts\":[{\"severity\":\"critical\",\"message\":\"m\",\"recommendation\":\"r\"}]}"
DocPurple == "{\"overall\":\"purple\",\"alerts\":[]}"
DocNoRecommendation == "{\"overall\":\"yellow\",\"alerts\":[{\"severity\":\"advisory\",\"message\":\"m\"}]}"
DocNoOverall == "{\"alerts\":[]}"
DocList == "[]"
DocSummary == "{\"summary\":\"s\",\"key_findings\":[\"k\"],\"recommendations\":[\"r\"]}"
DocNoSummary == "{}"
Sorry == "Sorry, I cannot help with that."

Documents == {DocGreen, DocRed, DocPurple, DocNoRecommendation, DocNoOverall,
              DocList, DocSummary, DocNoSummary}

\* the Markdown code fence of three backquotes, written with quotes
Fence == "'''"
WhiteSpace == {" ", "\n"}

\* the value json.loads gives for one document
json_value(doc) ==
    CASE doc = DocGreen ->
           [type |-> "object", value |-> [overall |-> "green", alerts |-> <<>>]]
      [] doc = DocRed ->
           [type |-> "object",
            value |-> [overall |-> "red",
                       alerts |-> <<[severity |-> "critical", message |-> "m",
                                     recommendation |-> "r"]>>]]
      [] doc = DocPurple ->
           [type |-> "object", value |-> [overall |-> "purple", alerts |-> <<>>]]
      [] doc = DocNoRecommendation ->
           [type |-> "object",
            value |-> [overall |-> "yellow",
                       alerts |-> <<[severity |-> "advisory", message |-> "m"]>>]]
      [] doc = DocNoOverall ->
           [type |-> "object", value |-> [alerts |-> <<>>]]
      [] doc = DocList ->
           [type |-> "array", value |-> <<>>]
      [] doc = DocSummary ->
           [type |-> "object",
            value |-> [summary |-> "s", key_findings |-> <<"k">>,
                       recommendations |-> <<"r">>]]
      [] doc = DocNoSummary ->
           [type |-> "object", value |-> <<>>]

\* str.strip()
RECURSIVE lstrip(_)
lstrip(s) ==
    IF s # <<>> /\ Head(s) \in WhiteSpace THEN lstrip(Tail(s)) ELSE s

RECURSIVE rstrip(_)
rstrip(s) ==
    IF s # <<>> /\ s[Len(s)] \in WhiteSpace
    THEN rstrip(SubSeq(s, 1, Len(s) - 1)) ELSE s

strip(s) == rstrip(lstrip(s))

\* str.startswith, str.endswith
startswith(s, prefix) ==
    Len(s) >= Len(prefix) /\ SubSeq(s, 1, Len(prefix)) = prefix

endswith(s, suffix) ==
    Len(s) >= Len(suffix)
        /\ SubSeq(s, Len(s) - Len(suffix) + 1, Len(s)) = suffix

\* the text with its Markdown code-fence wrapping removed
clean_response(text) ==
    LET c0 == strip(text)
        c1 == IF startswith(c0, <<Fence, "json">>)
              THEN SubSeq(c0, 3, Len(c0)) ELSE c0
        c2 == IF startswith(c1, <<Fence>>) THEN Tail(c1) ELSE c1
        c3 == IF endswith(c2, <<Fence>>)
              THEN SubSeq(c2, 1, Len(c2) - 1) ELSE c2
    IN  strip(c3)

\* json.loads: white space around one document is accepted, anything else
\* raises json.JSONDecodeError
JSONDecodeError == [type |-> "JSONDecodeError", value |-> <<>>]

json_loads(text) ==
    LET t == strip(text)
    IN  IF Len(t) = 1 /\ t[1] \in Documents THEN json_value(t[1])
        ELSE JSONDecodeError

\* VerificationResponse(**response_json): the required fields are present
Alert_valid(alert) ==
    {"severity", "message", "recommendation"} \subseteq DOMAIN alert

VerificationResponse_valid(response_json) ==
    /\ {"overall", "alerts"} \subseteq DOMAIN response_json
    /\ \A k \in 1..Len(response_json.alerts) :
           Alert_valid(response_json.alerts[k])

\* the pairs that interact, with the description as it is stored
RECURSIVE raw_interactions_of(_, _, _, _)
raw_interactions_of(df, i2n, valid_ids, pairs) ==
    IF pairs = <<>> THEN <<>>
    ELSE LET id1 == valid_ids[Head(pairs).i]
             id2 == valid_ids[Head(pairs).j]
             interaction == lookup(df, id1, id2)
             rest == raw_interactions_of(df, i2n, valid_ids, Tail(pairs))
         IN  IF interaction # <<>>
             THEN <<[pair |-> sorted(get_name(i2n, id1, id1),
                                     get_name(i2n, id2, id2)),
                     description |-> first_description(interaction)]>> \o rest
             ELSE rest

\* the internal check that substitutes the placeholders as the resolver does
check_drug_interactions_rendered(df, n2i, i2n, drug_names) ==
    LET drug_ids == [n \in 1..Len(drug_names) |-> get_id(n2i, drug_names[n])]
        valid_ids == valid_ids_of(drug_ids)
    IN  IF too_few_ids(valid_ids) THEN <<>>
        ELSE found_interactions_of(df, i2n, valid_ids, combinations(valid_ids))

\* _check_drug_interactions: the findings of the internal check
check_drug_interactions(df, n2i, i2n, drug_names) ==
    LET drug_ids == [n \in 1..Len(drug_names) |-> get_id(n2i, drug_names[n])]
        valid_ids == valid_ids_of(drug_ids)
    IN  IF too_few_ids(valid_ids) THEN <<>>
        ELSE raw_interactions_of(df, i2n, valid_ids, combinations(valid_ids))

\* a reply of the external model: an exception, or a text
ModelFailure == [raised |-> TRUE, text |-> <<>>]
ModelText(text) == [raised |-> FALSE, text |-> text]

\* the call made again after the first reply
call_generative_ai_retrying(key, reply) ==
    IF ~key THEN [is_none |-> TRUE, text |-> <<>>, model_calls |-> 0]
    ELSE IF reply.raised THEN [is_none |-> TRUE, text |-> <<>>, model_calls |-> 2]
    ELSE [is_none |-> FALSE, text |-> reply.text, model_calls |-> 2]

\* the text of the reply, or None; the model is called only with a key
call_generative_ai(key, reply) ==
    IF ~key THEN [is_none |-> TRUE, text |-> <<>>, model_calls |-> 0]
    ELSE IF reply.raised THEN [is_none |-> TRUE, text |-> <<>>, model_calls |-> 1]
    ELSE [is_none |-> FALSE, text |-> reply.text, model_calls |-> 1]

\* DrugInteraction(description=NaN) raises ValidationError inside
\* _check_drug_interactions (lines 44-47), called at line 106 outside the
\* try of line 147: the handler ends with nothing bound to interactions
check_drug_interactions_raises(df, n2i, i2n, drug_names) ==
    \E k \in 1..Len(check_drug_interactions(df, n2i, i2n, drug_names)) :
        check_drug_interactions(df, n2i, i2n, drug_names)[k].description = NaN

verify_prescription_trace(df, n2i, i2n, key, drug_names, reply) ==
    [resolved |-> drug_names,
     valid_ids |-> valid_ids_of([n \in 1..Len(drug_names) |->
                                     get_id(n2i, drug_names[n])]),
     lookups |-> IF Len(drug_names) < 1
                    \/ too_few_ids(valid_ids_of([n \in 1..Len(drug_names) |->
                                        get_id(n2i, drug_names[n])]))
                 THEN <<>>
                 ELSE lookups_of(df, valid_ids_of([n \in 1..Len(drug_names) |->
                                        get_id(n2i, drug_names[n])])),
     interactions |-> IF Len(drug_names) < 1 THEN <<>>
                      ELSE IF check_drug_interactions_raises(df, n2i, i2n, drug_names)
                      THEN None
                      ELSE check_drug_interactions(df, n2i, i2n, drug_names),
     model_calls |-> IF Len(drug_names) < 1 THEN 0
                     ELSE IF check_drug_interactions_raises(df, n2i, i2n, drug_names)
                     THEN 0
                     ELSE call_generative_ai(key, reply).model_calls,
     reply |-> reply]

verify_prescription(df, n2i, i2n, key, drug_names, reply) ==
    IF Len(drug_names) < 1
    THEN HTTPException("verify_prescription", drug_names, 400,
                       "Please provide at least one drug.")
    ELSE IF check_drug_interactions_raises(df, n2i, i2n, drug_names)
    THEN HTTPException("verify_prescription", drug_names, 500,
                       "Internal Server Error")
    ELSE
    LET ai_response_text == call_generative_ai(key, reply)
        response_json == json_loads(clean_response(ai_response_text.text))
    IN  IF ai_response_text.is_none
        THEN HTTPException("verify_prescription", drug_names, 500,
                           "AI service unavailable")
        ELSE IF response_json.type = "JSONDecodeError"
        THEN HTTPException("verify_prescription", drug_names, 500,
                           "Invalid AI response format")
        ELSE IF response_json.type # "object"
        THEN HTTPException("verify_prescription", drug_names, 500,
                           "Internal server error")
        ELSE IF ~VerificationResponse_valid(response_json.value)
        THEN HTTPException("verify_prescription", drug_names, 500,
                           "Invalid AI response format")
        ELSE [op |-> "verify_prescription", drugs |-> drug_names,
              status |-> 200, detail |-> "",
              body |-> [overall |-> response_json.value.overall,
                        alerts |-> response_json.value.alerts,
                        alternatives |-> None]]

-----------------------------------------------------------------------------
(* utils/database.py *)

\* A table or dict that is never iterated is a function on its keys.
EmptyDict == [k \in {} |-> None]

\* d[k] = v
Put(d, k, v) == [x \in DOMAIN d \cup {k} |-> IF x = k THEN v ELSE d[x]]

\* del d[k]
Remove(d, k) == [x \in DOMAIN d \ {k} |-> d[x]]

\* f"Patient {patient_id}"
DefaultName(patient_id) == <<"Patient ", patient_id>>

\* INSERT OR REPLACE INTO patients (patient_id, name, last_activity): the
\* row of the id, if any, is replaced by a new row whose created_at is the
\* column default CURRENT_TIMESTAMP
add_patient_to_db(table, patient_id, name, now) ==
    Put(table, patient_id,
        [name |-> IF name = <<>> THEN DefaultName(patient_id) ELSE name,
         created_at |-> now,
         last_activity |-> now])

\* UPDATE patients SET last_activity = ? WHERE patient_id = ?
update_patient_activity(table, patient_id, now) ==
    IF patient_id \in DOMAIN table
    THEN [table EXCEPT ![patient_id].last_activity = now]
    ELSE table

\* SELECT 1 FROM patients WHERE patient_id = ?
patient_exists_in_db(table, patient_id) == patient_id \in DOMAIN table

-----------------------------------------------------------------------------
(* routes/medical_files.py *)

\* A file name is the sequence of its dot-separated parts, each part after
\* the first written with its dot: <<"notes", ".txt">>, <<".txt">>.

\* os.path.splitext(filename)[1]: the last part when it starts with a dot
\* and a part that is more than dots precedes it
splitext_ext(filename) ==
    IF Len(filename) >= 2 THEN filename[Len(filename)] ELSE ""

\* str.lower() of an extension
lower_ext(ext) ==
    CASE ext = ".PNG" -> ".png" [] ext = ".TXT" -> ".txt" [] OTHER -> ext

allowed_extensions == {".pdf", ".txt", ".doc", ".docx", ".jpg", ".png"}

\* 10 * 1024 * 1024
MaxFileSize == 10485760

\* the HTTPException(400) the validation raises, or None
upload_validation(file) ==
    IF lower_ext(splitext_ext(file.filename)) \notin allowed_extensions
    THEN "File type not allowed"
    ELSE IF file.size > MaxFileSize
    THEN "File too large. Maximum size: 10MB"
    ELSE ""

\* except Exception as e: detail=f"Upload failed: {str(e)}", where str() of
\* an HTTPException is its status code and its detail, and str() of the
\* AttributeError of line 380 names the list that has no get
upload_failed(detail) ==
    CASE detail = "File type not allowed" ->
           "Upload failed: 400: File type not allowed"
      [] detail = "File too large. Maximum size: 10MB" ->
           "Upload failed: 400: File too large. Maximum size: 10MB"
      [] detail = "no attribute 'get'" ->
           "Upload failed: 'list' object has no attribute 'get'"

\* extracted_text[:500] + "..." if len(extracted_text) > 500 else
\* extracted_text
PreviewLength == 500

text_preview(extracted_text) ==
    IF Len(extracted_text) > PreviewLength
    THEN SubSeq(extracted_text, 1, PreviewLength) \o <<".", ".", ".">>
    ELSE extracted_text

\* a dict with the three fields of a summary
SummaryDict(summary, key_findings, recommendations) ==
    [type |-> "object",
     value |-> [summary |-> summary, key_findings |-> key_findings,
                recommendations |-> recommendations]]

\* the value generate_ai_summary returns, and the calls to the model
generate_ai_summary(key, reply) ==
    IF ~key
    THEN [analysis |-> SummaryDict(
              <<"AI summarization unavailable - API key not configured">>,
              <<>>, <<>>),
          model_calls |-> 0]
    ELSE IF reply.raised
    THEN [analysis |-> SummaryDict(<<"AI summarization failed">>, <<>>,
                                   <<"Manual review recommended">>),
          model_calls |-> 1]
    ELSE LET response_text == clean_response(reply.text)
         IN  IF json_loads(response_text).type = "JSONDecodeError"
             THEN [analysis |-> SummaryDict(response_text,
                                            <<"AI analysis completed">>,
                                            <<"Please review the summary above">>),
                   model_calls |-> 1]
             ELSE [analysis |-> json_loads(response_text), model_calls |-> 1]

\* the trace of a handler that reads no table: the calls it made to the
\* external model and the reply it was given
FileTrace(model_calls, reply) ==
    [resolved |-> <<>>, valid_ids |-> <<>>, lookups |-> <<>>,
     model_calls |-> model_calls, reply |-> reply]

\* the trace of a handler that does not use the external model
NoModelTrace == FileTrace(0, ModelText(<<>>))

\* the five stores as one value
StoresOf(patients, files, table, disk, now) ==
    [patients |-> patients, files |-> files, table |-> table, disk |-> disk,
     now |-> now]

NewProfile(patient_id, name, age, gender) ==
    [patient_id |-> patient_id, name |-> name, age |-> age, gender |-> gender,
     medical_files |-> <<>>]

\* the handler that creates the patient's profile without looking whether
\* the patient has one
upload_medical_file_new_profile(db, key, patient_id, file, reply, file_id) ==
    IF upload_validation(file) # ""
    THEN [response |-> HTTPException("upload_medical_file",
                                     <<patient_id, file>>, 500,
                                     upload_failed(upload_validation(file))),
          db |-> db, model_calls |-> 0]
    ELSE
    LET ai_analysis == generate_ai_summary(key, reply)
        medical_file == [id |-> file_id,
                         patient_id |-> patient_id,
                         filename |-> file.filename,
                         file_type |-> lower_ext(splitext_ext(file.filename)),
                         upload_date |-> db.now,
                         file_size |-> file.size,
                         extracted_text |-> file.text,
                         ai_summary |-> ai_analysis.analysis]
        profile == NewProfile(patient_id, DefaultName(patient_id), 0, "unknown")
        table == add_patient_to_db(db.table, patient_id, profile.name, db.now)
    IN  IF ai_analysis.analysis.type # "object"
        THEN [response |-> HTTPException("upload_medical_file",
                                         <<patient_id, file>>, 500,
                                         upload_failed("no attribute 'get'")),
              db |-> [db EXCEPT !.disk = @ (+) SetToBag({<<file_id, file.filename>>})],
              model_calls |-> ai_analysis.model_calls]
        ELSE
        [response |->
            [op |-> "upload_medical_file", drugs |-> <<patient_id, file>>,
             status |-> 200, detail |-> "",
             body |-> [success |-> TRUE, file_id |-> file_id,
                       extracted_text |-> text_preview(file.text)]],
         db |-> StoresOf(
             Put(db.patients, patient_id,
                 [profile EXCEPT !.medical_files = Append(@, medical_file)]),
             Put(db.files, file_id, medical_file),
             update_patient_activity(table, patient_id, db.now),
             db.disk (+) SetToBag({<<file_id, file.filename>>}),
             db.now + 1),
         model_calls |-> ai_analysis.model_calls]

\* POST /patients/{patient_id}/files/upload: the response, the stores after
\* it and the number of calls to the external model
\* (lines 355-428, all that follows the read of the file). The bytes are
\* written to the storage directory at lines 367-369, before the summary:
\* when generate_ai_summary returns a list, line 380 raises AttributeError
\* and the handler answers 500 with the bytes on disk and nothing stored
upload_medical_file(db, key, patient_id, file, reply, file_id) ==
    IF upload_validation(file) # ""
    THEN [response |-> HTTPException("upload_medical_file",
                                     <<patient_id, file>>, 500,
                                     upload_failed(upload_validation(file))),
          db |-> db, model_calls |-> 0]
    ELSE
    LET ai_analysis == generate_ai_summary(key, reply)
        medical_file == [id |-> file_id,
                         patient_id |-> patient_id,
                         filename |-> file.filename,
                         file_type |-> lower_ext(splitext_ext(file.filename)),
                         upload_date |-> db.now,
                         file_size |-> file.size,
                         extracted_text |-> file.text,
                         ai_summary |-> ai_analysis.analysis]
        profile == IF patient_id \in DOMAIN db.patients
                   THEN db.patients[patient_id]
                   ELSE NewProfile(patient_id, DefaultName(patient_id), 0,
                                   "unknown")
        table == add_patient_to_db(db.table, patient_id, profile.name, db.now)
    IN  IF ai_analysis.analysis.type # "object"
        THEN [response |-> HTTPException("upload_medical_file",
                                         <<patient_id, file>>, 500,
                                         upload_failed("no attribute 'get'")),
              db |-> [db EXCEPT !.disk = @ (+) SetToBag({<<file_id, file.filename>>})],
              model_calls |-> ai_analysis.model_calls]
        ELSE
        [response |->
            [op |-> "upload_medical_file", drugs |-> <<patient_id, file>>,
             status |-> 200, detail |-> "",
             body |-> [success |-> TRUE, file_id |-> file_id,
                       extracted_text |-> text_preview(file.text)]],
         db |-> StoresOf(
             Put(db.patients, patient_id,
                 [profile EXCEPT !.medical_files = Append(@, medical_file)]),
             Put(db.files, file_id, medical_file),
             update_patient_activity(table, patient_id, db.now),
             db.disk (+) SetToBag({<<file_id, file.filename>>}),
             db.now + 1),
         model_calls |-> ai_analysis.model_calls]

\* SELECT patient_id FROM patients ORDER BY last_activity DESC
get_all_patient_ids(table) ==
    CHOOSE ids \in [1..Cardinality(DOMAIN table) -> DOMAIN table] :
        /\ \A i, j \in DOMAIN ids : i # j => ids[i] # ids[j]
        /\ \A i, j \in DOMAIN ids :
              i < j => table[ids[i]].last_activity >= table[ids[j]].last_activity

\* GET /patients: for each id of the table, the profile in memory if there
\* is one, else a basic profile with the name of the table
get_patients(patients, table) ==
    LET patient_ids == get_all_patient_ids(table)
        entry(patient_id) ==
            IF patient_id \in DOMAIN patients
            THEN [patient_id |-> patient_id,
                  name |-> patients[patient_id].name,
                  age |-> patients[patient_id].age,
                  gender |-> patients[patient_id].gender,
                  file_count |-> Len(patients[patient_id].medical_files),
                  last_activity |-> table[patient_id].last_activity]
            ELSE [patient_id |-> patient_id,
                  name |-> table[patient_id].name,
                  age |-> 0,
                  gender |-> "unknown",
                  file_count |-> 0,
                  last_activity |-> table[patient_id].last_activity]
    IN  [op |-> "get_patients", drugs |-> <<>>, status |-> 200, detail |-> "",
         body |-> [patients |-> [k \in 1..Len(patient_ids) |->
                                    entry(patient_ids[k])]]]

\* the handler that answers for an unknown patient with an empty profile
get_patient_profile_or_default(patients, patient_id) ==
    [op |-> "get_patient_profile", drugs |-> <<patient_id>>, status |-> 200,
     detail |-> "",
     body |-> IF patient_id \in DOMAIN patients THEN patients[patient_id]
              ELSE NewProfile(patient_id, DefaultName(patient_id), 0, "unknown")]

\* GET /patients/{patient_id}
get_patient_profile(patients, patient_id) ==
    IF patient_id \notin DOMAIN patients
    THEN HTTPException("get_patient_profile", <<patient_id>>, 404,
                       "Patient not found")
    ELSE [op |-> "get_patient_profile", drugs |-> <<patient_id>>,
          status |-> 200, detail |-> "", body |-> patients[patient_id]]

\* GET /patients/{patient_id}/files
get_patient_files(patients, patient_id) ==
    [op |-> "get_patient_files", drugs |-> <<patient_id>>, status |-> 200,
     detail |-> "",
     body |-> [files |-> IF patient_id \notin DOMAIN patients THEN <<>>
                         ELSE patients[patient_id].medical_files]]

\* the selection that ignores the requested ids
files_to_process_all(patient, file_ids) == patient.medical_files

\* the files of the patient that the request selects
files_to_process(patient, file_ids) ==
    IF file_ids # {}
    THEN SelectSeq(patient.medical_files, LAMBDA f : f.id \in file_ids)
    ELSE patient.medical_files

\* the files whose extracted text is not empty
with_text(files) == SelectSeq(files, LAMBDA f : f.extracted_text # <<>>)

\* the files whose name, upload date and text are written to combined_text,
\* from which the prompt is made
combined_text(patients, patient_id, file_ids) ==
    IF patient_id \notin DOMAIN patients THEN <<>>
    ELSE with_text(files_to_process(patients[patient_id], file_ids))

\* the trace of a summary: the calls to the model, its reply, and the files
\* that the handler combined
SummaryTrace(model_calls, reply, combined) ==
    [resolved |-> <<>>, valid_ids |-> <<>>, lookups |-> <<>>,
     model_calls |-> model_calls, reply |-> reply, combined_text |-> combined]

\* POST /patients/{patient_id}/summary: the response and the number of calls
\* to the external model
generate_patient_summary(patients, key, patient_id, file_ids, reply) ==
    LET Error(status_code, detail) ==
            [response |-> HTTPException("generate_patient_summary",
                                        <<patient_id, file_ids>>,
                                        status_code, detail),
             model_calls |-> 0]
    IN
    IF patient_id \notin DOMAIN patients
    THEN Error(404, "Patient not found")
    ELSE IF files_to_process(patients[patient_id], file_ids) = <<>>
    THEN Error(404, "No files found to summarize")
    ELSE IF with_text(files_to_process(patients[patient_id], file_ids)) = <<>>
    THEN Error(400, "No text content found in files")
    ELSE IF ~key
    THEN Error(500, "Summary generation failed: 500: AI service not available")
    ELSE
    LET processed == with_text(files_to_process(patients[patient_id], file_ids))
        processed_files == [k \in 1..Len(processed) |-> processed[k].filename]
        response_text == clean_response(reply.text)
        analysis == json_loads(response_text)
        Reply(summary, key_findings, recommendations) ==
            [response |->
                [op |-> "generate_patient_summary",
                 drugs |-> <<patient_id, file_ids>>,
                 status |-> 200, detail |-> "",
                 body |-> [summary |-> summary,
                           files_processed |-> processed_files,
                           key_findings |-> key_findings,
                           recommendations |-> recommendations]],
             model_calls |-> 1]
        Failed == [response |-> HTTPException("generate_patient_summary",
                                              <<patient_id, file_ids>>, 500,
                                              "Summary generation failed"),
                   model_calls |-> 1]
        get(d, k, default) == IF k \in DOMAIN d THEN d[k] ELSE default
    IN  IF reply.raised THEN Failed
        ELSE IF analysis.type = "JSONDecodeError"
        THEN Reply(response_text, <<"AI analysis completed">>,
                   <<"Please review the summary above">>)
        ELSE IF analysis.type # "object" THEN Failed
        ELSE Reply(get(analysis.value, "summary", "Summary generated"),
                   get(analysis.value, "key_findings", <<>>),
                   get(analysis.value, "recommendations", <<>>))

\* the files whose extracted text holds more than white space
with_readable_text(files) ==
    SelectSeq(files, LAMBDA f : f.extracted_text # <<>>
                                    /\ strip(f.extracted_text) # <<>>)

\* POST /patients/{patient_id}/chat: the response and the number of calls to
\* the external model
chat_with_ai_about_patient(patients, key, patient_id, reply) ==
    LET Answer(text, context_used, model_calls) ==
            [response |->
                [op |-> "chat_with_ai_about_patient", drugs |-> <<patient_id>>,
                 status |-> 200, detail |-> "",
                 body |-> [response |-> text, context_used |-> context_used]],
             model_calls |-> model_calls]
    IN
    IF patient_id \notin DOMAIN patients
    THEN [response |-> HTTPException("chat_with_ai_about_patient",
                                     <<patient_id>>, 404, "Patient not found"),
          model_calls |-> 0]
    ELSE IF patients[patient_id].medical_files = <<>>
    THEN Answer(<<"I don't have any medical files for patient ", patient_id,
                  " yet. Please upload some medical documents first to enable AI chat functionality.">>,
                <<"No files available">>, 0)
    ELSE IF with_readable_text(patients[patient_id].medical_files) = <<>>
    THEN Answer(<<"I don't have readable text content from the uploaded files. Please ensure files contain text that can be extracted for AI analysis.">>,
                <<"No readable content">>, 0)
    ELSE IF ~key
    THEN Answer(<<"AI chat service is currently unavailable. Please contact system administrator.">>,
                <<"API unavailable">>, 0)
    ELSE IF reply.raised
    THEN Answer(<<"Sorry, I encountered an error while processing your question: ",
                  "Please try again.">>,
                <<"Error occurred">>, 1)
    ELSE Answer(strip(reply.text),
                <<"Based on ",
                  Len(with_readable_text(patients[patient_id].medical_files)),
                  " medical files">>, 1)

\* the handler without the try around os.remove: a removal that raises ends
\* the request after the patient's list was rewritten and before the file
\* record is deleted
delete_medical_file_unguarded(db, file_id, remove_raises) ==
    IF file_id \notin DOMAIN db.files
    THEN [response |-> HTTPException("delete_medical_file", <<file_id>>, 404,
                                     "File not found"),
          db |-> db]
    ELSE
    LET file_record == db.files[file_id]
        owner == file_record.patient_id
        patients == IF owner \in DOMAIN db.patients
                    THEN [db.patients EXCEPT ![owner].medical_files =
                             SelectSeq(@, LAMBDA f : f.id # file_id)]
                    ELSE db.patients
    IN  IF remove_raises
        THEN [response |-> HTTPException("delete_medical_file", <<file_id>>,
                                         500, "Internal Server Error"),
              db |-> StoresOf(patients, db.files, db.table, db.disk, db.now)]
        ELSE [response |->
                 [op |-> "delete_medical_file", drugs |-> <<file_id>>,
                  status |-> 200, detail |-> "",
                  body |-> [success |-> TRUE,
                            message |-> "File deleted successfully"]],
              db |-> StoresOf(patients, Remove(db.files, file_id), db.table,
                              db.disk (-) SetToBag({<<file_id, file_record.filename>>}),
                              db.now)]

\* DELETE /files/{file_id}: the response and the stores after it;
\* os.remove may raise, which the handler ignores
delete_medical_file(db, file_id, remove_raises) ==
    IF file_id \notin DOMAIN db.files
    THEN [response |-> HTTPException("delete_medical_file", <<file_id>>, 404,
                                     "File not found"),
          db |-> db]
    ELSE
    LET file_record == db.files[file_id]
        owner == file_record.patient_id
    IN  [response |->
            [op |-> "delete_medical_file", drugs |-> <<file_id>>,
             status |-> 200, detail |-> "",
             body |-> [success |-> TRUE,
                       message |-> "File deleted successfully"]],
         db |-> StoresOf(
             IF owner \in DOMAIN db.patients
             THEN [db.patients EXCEPT ![owner].medical_files =
                      SelectSeq(@, LAMBDA f : f.id # file_id)]
             ELSE db.patients,
             Remove(db.files, file_id),
             db.table,
             IF remove_raises THEN db.disk
             ELSE db.disk (-) SetToBag({<<file_id, file_record.filename>>}),
             db.now)]

\* POST /patients/{patient_id}/profile: the response and the stores after it
update_patient_profile(db, patient_id, name, age, gender) ==
    [response |->
        [op |-> "update_patient_profile", drugs |-> <<patient_id>>,
         status |-> 200, detail |-> "",
         body |-> [success |-> TRUE,
                   message |-> "Patient profile updated successfully"]],
     db |-> StoresOf(
         IF patient_id \notin DOMAIN db.patients
         THEN Put(db.patients, patient_id,
                  NewProfile(patient_id, name, age, gender))
         ELSE [db.patients EXCEPT ![patient_id].name = name,
                                  ![patient_id].age = age,
                                  ![patient_id].gender = gender],
         db.files,
         update_patient_activity(
             add_patient_to_db(db.table, patient_id, name, db.now),
             patient_id, db.now),
         db.disk,
         db.now + 1)]

\* POST /patients/register with the identifier that uuid4 gave, one that the
\* patients table does not hold: the response and the stores after it
register_new_patient(db, name, age, gender, patient_id) ==
    [response |->
        [op |-> "register_new_patient", drugs |-> <<patient_id>>,
         status |-> 200, detail |-> "",
         body |-> [success |-> TRUE,
                   patient_id |-> patient_id,
                   patient |-> [patient_id |-> patient_id, name |-> name,
                                age |-> age, gender |-> gender,
                                file_count |-> 0,
                                registration_date |-> db.now]]],
     db |-> StoresOf(
         Put(db.patients, patient_id, NewProfile(patient_id, name, age, gender)),
         db.files,
         add_patient_to_db(db.table, patient_id, name, db.now),
         db.disk,
         db.now + 1)]

-----------------------------------------------------------------------------
(* Datasets and requests *)

D1 == <<"DB1">>
D2 == <<"DB2">>
D3 == <<"DB3">>
Ids == {D1, D2, D3}

Prefixed(id) == <<"Compound::">> \o id

\* names that appear in synonym lists; the last one is the placeholder text
SynonymNames == {<<"A">>, <<"a">>, <<"(", ".", "*", ")">>}

\* names that appear in requests
RequestNames == {<<"A">>, <<"a">>, <<"B">>, <<"(", ".", "*", ")">>}

\* description templates
Plain == <<"x">>
TwoSlots == <<"(", ".", "*", ")", "+", "(", ".", "*", ")">>
OneSlot == <<"x", "(", ".", "*", ")">>
Nested == <<"(", "(", ".", "*", ")", ".", "*", ")">>

SeqsUpTo(S, n) == UNION {[1..k -> S] : k \in 0..n}
NonEmptySeqsUpTo(S, n) == UNION {[1..k -> S] : k \in 1..n}

\* two identifiers, the first with every choice of synonym list, the second
\* with one name that the first may list too; one interaction row
SynonymDatasets ==
    {[json |-> <<[id |-> D1, names |-> l1], [id |-> D2, names |-> <<n2>>]>>,
      csv |-> <<[Drug1 |-> Prefixed(D1), Drug2 |-> D2, Interaction |-> d]>>] :
        l1 \in NonEmptySeqsUpTo(SynonymNames, MaxSynonyms),
        n2 \in {<<"a">>, <<"(", ".", "*", ")">>},
        d \in {TwoSlots, Nested}}

FixedSynonyms ==
    <<[id |-> D1, names |-> <<<<"A">>>>],
      [id |-> D2, names |-> <<<<"B">>>>],
      [id |-> D3, names |-> <<<<"(", ".", "*", ")">>>>]>>

\* rows of both orientations, of one pair with two descriptions, of a
\* second pair, and of an identifier with itself
RowChoices ==
    {[Drug1 |-> Prefixed(D1), Drug2 |-> Prefixed(D2), Interaction |-> Plain],
     [Drug1 |-> Prefixed(D1), Drug2 |-> Prefixed(D2), Interaction |-> TwoSlots],
     [Drug1 |-> Prefixed(D2), Drug2 |-> Prefixed(D1), Interaction |-> TwoSlots],
     [Drug1 |-> Prefixed(D2), Drug2 |-> Prefixed(D3), Interaction |-> OneSlot],
     [Drug1 |-> Prefixed(D1), Drug2 |-> Prefixed(D1), Interaction |-> Plain]}

\* three identifiers with fixed names, every choice of interaction rows
TableDatasets ==
    {[json |-> FixedSynonyms, csv |-> t] : t \in SeqsUpTo(RowChoices, MaxRows)}

Datasets == SynonymDatasets \cup TableDatasets

DrugLists == SeqsUpTo(RequestNames, MaxDrugs)

\* eleven keys that contain the letter a without being it, one name listed
\* under two identifiers, and a one-letter name that other names contain
ManySynonyms ==
    <<[id |-> D1, names |-> <<<<"A", "b">>, <<"a", "c">>, <<"a", "x">>,
                              <<"a", "y">>, <<"a", "z">>, <<"a", "a">>>>],
      [id |-> D2, names |-> <<<<"b", "a">>, <<"c", "a">>, <<"x", "a">>,
                              <<"y", "a">>, <<"z", "a">>, <<"b", "c">>,
                              <<"a", "b">>>>],
      [id |-> D3, names |-> <<<<"b">>>>]>>

\* the datasets of the read-only service: the many-synonym dataset and the
\* three fixed names with one interaction row
ServeDatasets ==
    {[json |-> ManySynonyms,
      csv |-> <<[Drug1 |-> Prefixed(D1), Drug2 |-> Prefixed(D2),
                 Interaction |-> Plain]>>]}
    \cup {[json |-> FixedSynonyms, csv |-> <<row>>] : row \in RowChoices}
    \cup {[json |-> FixedSynonyms, csv |-> <<>>],
          [json |-> <<[id |-> D1, names |-> <<<<"A">>, <<"a", "b">>>>],
                      [id |-> D2, names |-> <<<<"B">>>>]>>,
           csv |-> <<[Drug1 |-> Prefixed(D1), Drug2 |-> Prefixed(D2),
                      Interaction |-> Plain],
                     [Drug1 |-> Prefixed(D2), Drug2 |-> Prefixed(D1),
                      Interaction |-> TwoSlots]>>]}

\* names of the requests to the read-only service: beside the request names,
\* a listed two-letter name and a name that only contains a listed one
ServeNames == RequestNames \cup {<<"a", "b">>, <<"b", "z">>}

ServeLists == SeqsUpTo(ServeNames, MaxDrugs)

\* search terms: exact names, fragments of names, and an absent one
SearchTerms == ServeNames \cup {<<"b">>, <<"c">>, <<"z", "z">>}

\* the paths of the GET requests for statistics: the route of the health
\* router and the same route under the prefix of the other routers
StatsPaths == {"/stats", "/api/v1/stats"}

\* the prescriptions verified: none, one drug, two drugs in either order,
\* and two drugs of which one is unknown
PrescriptionLists ==
    {<<>>, <<<<"A">>>>, <<<<"A">>, <<"B">>>>, <<<<"B">>, <<"A">>>>,
     <<<<"a">>, <<"b", "z">>>>}

\* replies of the external model: a failure, each document bare, a document
\* in a json fence, in a plain fence, after two fences, and plain prose
ModelTexts ==
    {<<doc>> : doc \in Documents}
    \cup {<<Fence, "json", "\n", DocGreen, "\n", Fence>>,
          <<" ", Fence, "\n", DocRed, "\n", Fence, "\n">>,
          <<Fence, "json", Fence, DocGreen>>,
          <<"json", DocGreen>>,
          <<Sorry>>,
          <<Fence, "json", "\n", Sorry, "\n", Fence>>,
          <<>>}

ModelReplies == {ModelFailure} \cup {ModelText(text) : text \in ModelTexts}

\* patient ids of requests, and the ids that registration can generate
PatientIds == {"p1", "p2"}
GeneratedIds == {"P0000001"}

\* the names, age and gender sent
RegisteredName == <<"Ann">>
UpdatedName == <<"Bob">>
Age == 30
Gender == "female"

\* uploads, each with the number of its bytes and the text that
\* extract_text_from_file gives for them: a text file one character longer
\* than the preview of the response, an image
\* of exactly the largest size whose bytes hold no printable character, a
\* forbidden extension, a file one byte too large, a name without extension
\* and a name that is only an extension
UploadFiles ==
    {[filename |-> <<"notes", ".txt">>, size |-> PreviewLength + 1,
      text |-> [i \in 1..PreviewLength + 1 |-> "t"]],
     [filename |-> <<"scan", ".PNG">>, size |-> MaxFileSize, text |-> <<>>],
     [filename |-> <<"run", ".exe">>, size |-> 1, text |-> <<"t">>],
     [filename |-> <<"big", ".pdf">>, size |-> MaxFileSize + 1, text |-> <<"t">>],
     [filename |-> <<"README">>, size |-> 1, text |-> <<"t">>],
     [filename |-> <<".txt">>, size |-> 1, text |-> <<"t">>]}

\* the file ids a request may name: uuid4 is modelled by the time of upload
FileIds == 0..MaxClock

\* the file_ids of a summary request: absent, one file, two files
FileIdChoices == {{}, {0}, {0, 1}}

\* replies of the external model to the medical-file handlers
FileReplies ==
    {ModelFailure, ModelText(<<DocSummary>>), ModelText(<<DocNoSummary>>),
     ModelText(<<DocList>>), ModelText(<<Sorry>>),
     ModelText(<<Fence, "json", "\n", DocSummary, "\n", Fence>>)}

\* the reply of the external model to the summary of an uploaded file
UploadReplies == {ModelText(<<DocSummary>>), ModelText(<<DocList>>)}

NoResponse == [op |-> "none", drugs |-> <<>>, status |-> 0, detail |-> "",
               body |-> None]

-----------------------------------------------------------------------------
(* Behaviour *)

\* no patient, no file, no request: medical_files.py:27-28 and a new
\* patients.db
EmptyStores ==
    /\ PATIENTS_DB = EmptyDict
    /\ FILES_DB = EmptyDict
    /\ patients_table = EmptyDict
    /\ storage_dir = EmptyBag
    /\ clock = 0
    /\ uploading = EmptyBag

Init ==
    /\ \E ds \in Datasets :
          /\ dataset_csv = ds.csv
          /\ dataset_json = ds.json
    /\ interactions_df = None
    /\ name_to_id = None
    /\ id_to_name = None
    /\ phase = "import"
    /\ response = NoResponse
    /\ trace = NoTrace
    /\ missing_files = {}
    /\ api_key = TRUE
    /\ EmptyStores

\* main.py: load_data() runs once, when the module is imported; an
\* exception it raises ends the import, and no request is ever routed.
\* The globals are assigned in order (lines 19, 34, 37), so a failure
\* keeps what was assigned before it: nothing when the CSV file is absent,
\* the DataFrame when the JSON file is absent, the DataFrame and
\* name_to_id when names[0] raises IndexError at line 37
load_data ==
    /\ phase = "import"
    /\ IF load_raises(missing_files, dataset_json)
       THEN /\ phase' = "failed"
            /\ interactions_df' = IF "dataset/data_final_v5.csv" \in missing_files THEN interactions_df
                                  ELSE read_interactions(dataset_csv)
            /\ name_to_id' = IF missing_files # {} THEN name_to_id
                             ELSE build_name_to_id(dataset_json)
            /\ UNCHANGED id_to_name
       ELSE /\ interactions_df' = read_interactions(dataset_csv)
            /\ name_to_id' = build_name_to_id(dataset_json)
            /\ id_to_name' = build_id_to_name(dataset_json)
            /\ phase' = "serving"
    /\ UNCHANGED <<environment, uploading, response, trace, stores>>

\* POST /api/v1/check-interactions/
CheckInteractions ==
    /\ phase = "serving"
    /\ response = NoResponse
    /\ \E drug_names \in DrugLists :
          /\ response' = check_interactions(interactions_df, name_to_id,
                                            id_to_name, drug_names)
          /\ trace' = check_interactions_trace(interactions_df, name_to_id,
                                               drug_names)
    /\ UNCHANGED <<environment, uploading, tables, phase, stores>>

\* the response is sent; a Resolution Result is not kept
SendResponse ==
    /\ response # NoResponse
    /\ response' = NoResponse
    /\ trace' = NoTrace
    /\ UNCHANGED <<environment, uploading, tables, phase, stores>>

Next == load_data \/ CheckInteractions \/ SendResponse

Spec == Init /\ [][Next]_vars

-----------------------------------------------------------------------------
(* Start-up on datasets that may be absent or malformed *)

\* the last identifier lists no name
NamelessSynonyms ==
    <<[id |-> D1, names |-> <<<<"A">>>>],
      [id |-> D2, names |-> <<<<"B">>>>],
      [id |-> D3, names |-> <<>>]>>

\* rows with a description, and rows whose Interaction cell is empty
LoadRows ==
    {[Drug1 |-> Prefixed(D1), Drug2 |-> Prefixed(D2), Interaction |-> Plain],
     [Drug1 |-> Prefixed(D1), Drug2 |-> Prefixed(D2), Interaction |-> NaN],
     [Drug1 |-> Prefixed(D2), Drug2 |-> Prefixed(D3), Interaction |-> NaN]}

LoadDatasets ==
    {[json |-> j, csv |-> t] :
        j \in {FixedSynonyms, NamelessSynonyms},
        t \in SeqsUpTo(LoadRows, MaxRows)}

InitLoad ==
    /\ \E ds \in LoadDatasets :
          /\ dataset_csv = ds.csv
          /\ dataset_json = ds.json
    /\ interactions_df = None
    /\ name_to_id = None
    /\ id_to_name = None
    /\ phase = "import"
    /\ response = NoResponse
    /\ trace = NoTrace
    /\ missing_files \in SUBSET DatasetFiles
    /\ api_key = TRUE
    /\ EmptyStores

SpecLoad == InitLoad /\ [][Next]_vars

-----------------------------------------------------------------------------
(* The read-only service: every handler that reads the tables *)

InitServe ==
    /\ \E ds \in ServeDatasets :
          /\ dataset_csv = ds.csv
          /\ dataset_json = ds.json
    /\ interactions_df = None
    /\ name_to_id = None
    /\ id_to_name = None
    /\ phase = "import"
    /\ response = NoResponse
    /\ trace = NoTrace
    /\ missing_files = {}
    /\ api_key \in BOOLEAN
    /\ EmptyStores

\* POST /api/v1/check-interactions/ with the names of the read-only service
CheckInteractionsServe ==
    /\ phase = "serving"
    /\ response = NoResponse
    /\ \E drug_names \in ServeLists :
          /\ response' = check_interactions(interactions_df, name_to_id,
                                            id_to_name, drug_names)
          /\ trace' = check_interactions_trace(interactions_df, name_to_id,
                                               drug_names)
    /\ UNCHANGED <<environment, uploading, tables, phase, stores>>

\* the handler that remembers the term it was asked for as a new key
SearchDrug_remembering ==
    /\ phase = "serving"
    /\ response = NoResponse
    /\ \E drug_name \in SearchTerms :
          /\ response' = search_drug(name_to_id, id_to_name, drug_name)
          /\ name_to_id' = DictSet(name_to_id, lower(drug_name),
                                   get_id(name_to_id, drug_name))
    /\ trace' = NoTrace
    /\ UNCHANGED <<environment, uploading, interactions_df, id_to_name, phase, stores>>

\* GET /api/v1/search-drug/{drug_name}
SearchDrug ==
    /\ phase = "serving"
    /\ response = NoResponse
    /\ \E drug_name \in SearchTerms :
          response' = search_drug(name_to_id, id_to_name, drug_name)
    /\ trace' = NoTrace
    /\ UNCHANGED <<environment, uploading, tables, phase, stores>>

\* GET /stats and GET /api/v1/stats
GetStats ==
    /\ phase = "serving"
    /\ response = NoResponse
    /\ \E path \in StatsPaths :
          response' = route_get(path, interactions_df, id_to_name)
    /\ trace' = NoTrace
    /\ UNCHANGED <<environment, uploading, tables, phase, stores>>

\* POST /api/v1/verify-prescription/
VerifyPrescription ==
    /\ phase = "serving"
    /\ response = NoResponse
    /\ \E drug_names \in PrescriptionLists, reply \in ModelReplies :
          /\ response' = verify_prescription(interactions_df, name_to_id,
                                             id_to_name, api_key, drug_names,
                                             reply)
          /\ trace' = verify_prescription_trace(interactions_df, name_to_id,
                                                id_to_name, api_key,
                                                drug_names, reply)
    /\ UNCHANGED <<environment, uploading, tables, phase, stores>>

NextServe ==
    \/ load_data
    \/ CheckInteractionsServe
    \/ SearchDrug
    \/ GetStats
    \/ VerifyPrescription
    \/ SendResponse

SpecServe == InitServe /\ [][NextServe]_vars

-----------------------------------------------------------------------------
(* The medical-file service, with verify-prescription beside it *)

\* the stores before a request
Stores == StoresOf(PATIENTS_DB, FILES_DB, patients_table, storage_dir, clock)

\* the stores after a request
StoresBecome(db) ==
    /\ PATIENTS_DB' = db.patients
    /\ FILES_DB' = db.files
    /\ patients_table' = db.table
    /\ storage_dir' = db.disk
    /\ clock' = db.now

FilesDataset ==
    [json |-> FixedSynonyms,
     csv |-> <<[Drug1 |-> Prefixed(D1), Drug2 |-> Prefixed(D2),
                Interaction |-> Plain]>>]

InitFiles ==
    /\ dataset_csv = FilesDataset.csv
    /\ dataset_json = FilesDataset.json
    /\ interactions_df = None
    /\ name_to_id = None
    /\ id_to_name = None
    /\ phase = "import"
    /\ response = NoResponse
    /\ trace = NoTrace
    /\ missing_files = {}
    /\ api_key \in BOOLEAN
    /\ EmptyStores

\* POST /api/v1/patients/register
RegisterNewPatient ==
    /\ phase = "serving"
    /\ response = NoResponse
    /\ clock < MaxClock
    /\ \E patient_id \in GeneratedIds :
          /\ ~patient_exists_in_db(patients_table, patient_id)
          /\ LET result == register_new_patient(Stores, RegisteredName, Age,
                                                Gender, patient_id)
             IN  /\ response' = result.response
                 /\ StoresBecome(result.db)
    /\ trace' = NoModelTrace
    /\ UNCHANGED <<environment, uploading, tables, phase>>

\* POST /api/v1/patients/{patient_id}/profile
UpdatePatientProfile ==
    /\ phase = "serving"
    /\ response = NoResponse
    /\ clock < MaxClock
    /\ \E patient_id \in PatientIds :
          LET result == update_patient_profile(Stores, patient_id, UpdatedName,
                                               Age, Gender)
          IN  /\ response' = result.response
              /\ StoresBecome(result.db)
    /\ trace' = NoModelTrace
    /\ UNCHANGED <<environment, uploading, tables, phase>>

\* the trace of an upload that was suspended: beside the calls to the
\* model, whether the patient had a profile when the request began
UploadTrace(model_calls, reply, known) ==
    [resolved |-> <<>>, valid_ids |-> <<>>, lookups |-> <<>>,
     model_calls |-> model_calls, reply |-> reply, known |-> known]

\* POST /api/v1/patients/{patient_id}/files/upload up to await file.read():
\* the extension is tested before the handler awaits the bytes of the file;
\* a forbidden extension is answered at once, any other request is suspended
\* and the event loop serves other requests. A request is admitted while
\* the clock and the storage directory leave every suspended upload room
\* to finish.
UploadBegin ==
    /\ phase = "serving"
    /\ \E patient_id \in PatientIds, file \in UploadFiles :
          IF lower_ext(splitext_ext(file.filename)) \in allowed_extensions
          THEN /\ BagCardinality(uploading) < MaxInFlight
               /\ clock + BagCardinality(uploading) < MaxClock
               /\ BagCardinality(storage_dir) + BagCardinality(uploading)
                     < MaxClock
               /\ uploading' = uploading (+) SetToBag(
                                    {[patient_id |-> patient_id, file |-> file,
                                      known |-> patient_id \in DOMAIN PATIENTS_DB]})
               /\ UNCHANGED <<response, trace>>
          ELSE /\ response = NoResponse
               /\ response' = upload_medical_file(Stores, api_key, patient_id,
                                                  file, ModelFailure,
                                                  clock).response
               /\ trace' = UploadTrace(0, ModelFailure,
                                        patient_id \in DOMAIN PATIENTS_DB)
               /\ UNCHANGED uploading
    /\ UNCHANGED <<environment, tables, phase, stores>>

\* the rest of the handler, from the size test to the response: it holds no
\* await, so the event loop runs it without serving another request. The
\* uuid4 of an upload that fails after its bytes were written is recorded
\* nowhere: its file stays in medical_files/ beside the files written under
\* that time by other uploads, so the directory is a bag. It holds at most
\* MaxClock files.
UploadFinish ==
    /\ phase = "serving"
    /\ response = NoResponse
    /\ clock < MaxClock
    /\ BagCardinality(storage_dir) < MaxClock
    /\ \E request \in BagToSet(uploading), reply \in UploadReplies :
          LET result == upload_medical_file(Stores, api_key, request.patient_id,
                                            request.file, reply, clock)
          IN  /\ response' = result.response
              /\ StoresBecome(result.db)
              /\ trace' = UploadTrace(result.model_calls, reply, request.known)
              /\ uploading' = uploading (-) SetToBag({request})
    /\ UNCHANGED <<environment, tables, phase>>

\* GET /api/v1/patients/{patient_id}
GetPatientProfile ==
    /\ phase = "serving"
    /\ response = NoResponse
    /\ \E patient_id \in PatientIds \cup GeneratedIds :
          response' = get_patient_profile(PATIENTS_DB, patient_id)
    /\ trace' = NoModelTrace
    /\ UNCHANGED <<environment, uploading, tables, phase, stores>>

\* GET /api/v1/patients/{patient_id}/files
GetPatientFiles ==
    /\ phase = "serving"
    /\ response = NoResponse
    /\ \E patient_id \in PatientIds :
          response' = get_patient_files(PATIENTS_DB, patient_id)
    /\ trace' = NoModelTrace
    /\ UNCHANGED <<environment, uploading, tables, phase, stores>>

\* POST /api/v1/patients/{patient_id}/summary
GeneratePatientSummary ==
    /\ phase = "serving"
    /\ response = NoResponse
    /\ \E patient_id \in PatientIds, file_ids \in FileIdChoices,
          reply \in FileReplies :
          LET result == generate_patient_summary(PATIENTS_DB, api_key,
                                                 patient_id, file_ids, reply)
          IN  /\ response' = result.response
              /\ trace' = SummaryTrace(result.model_calls, reply,
                                       combined_text(PATIENTS_DB, patient_id,
                                                     file_ids))
    /\ UNCHANGED <<environment, uploading, tables, phase, stores>>

\* POST /api/v1/patients/{patient_id}/chat
ChatWithAI ==
    /\ phase = "serving"
    /\ response = NoResponse
    /\ \E patient_id \in PatientIds, reply \in FileReplies :
          LET result == chat_with_ai_about_patient(PATIENTS_DB, api_key,
                                                   patient_id, reply)
          IN  /\ response' = result.response
              /\ trace' = FileTrace(result.model_calls, reply)
    /\ UNCHANGED <<environment, uploading, tables, phase, stores>>

\* DELETE /api/v1/files/{file_id}
DeleteMedicalFile ==
    /\ phase = "serving"
    /\ response = NoResponse
    /\ \E file_id \in FileIds, remove_raises \in BOOLEAN :
          LET result == delete_medical_file(Stores, file_id, remove_raises)
          IN  /\ response' = result.response
              /\ StoresBecome(result.db)
    /\ trace' = NoModelTrace
    /\ UNCHANGED <<environment, uploading, tables, phase>>

\* the handlers that read the stores of patients and files, with the uploads
\* and deletions that fill and empty them
NextFiles ==
    \/ load_data
    \/ UploadBegin
    \/ UploadFinish
    \/ GetPatientProfile
    \/ GetPatientFiles
    \/ GeneratePatientSummary
    \/ ChatWithAI
    \/ DeleteMedicalFile
    \/ SendResponse

SpecFiles == InitFiles /\ [][NextFiles]_vars

\* the three handlers that call the external model, with the uploads that
\* give them files to read
NextAssist ==
    \/ load_data
    \/ VerifyPrescription
    \/ UploadBegin
    \/ UploadFinish
    \/ GeneratePatientSummary
    \/ ChatWithAI
    \/ SendResponse

SpecAssist == InitFiles /\ [][NextAssist]_vars

\* the handlers that write the stores of patients and files
NextPatients ==
    \/ load_data
    \/ RegisterNewPatient
    \/ UpdatePatientProfile
    \/ UploadBegin
    \/ UploadFinish
    \/ DeleteMedicalFile
    \/ SendResponse

SpecPatients == InitFiles /\ [][NextPatients]_vars

-----------------------------------------------------------------------------
(* Upload requests that are served concurrently *)

NextConcurrent ==
    \/ load_data
    \/ UploadBegin
    \/ UploadFinish
    \/ GetPatientFiles
    \/ SendResponse

SpecConcurrent == InitFiles /\ [][NextConcurrent]_vars

-----------------------------------------------------------------------------
(* The medical-file service across restarts of the process *)

\* GET /api/v1/patients
GetPatients ==
    /\ phase = "serving"
    /\ response = NoResponse
    /\ response' = get_patients(PATIENTS_DB, patients_table)
    /\ trace' = NoModelTrace
    /\ UNCHANGED <<environment, uploading, tables, phase, stores>>

\* the process ends and a new one imports main.py: the module globals are
\* initialised again, patients.db and medical_files/ are as they were left,
\* and the requests in flight are lost
Restart ==
    /\ phase = "serving"
    /\ phase' = "import"
    /\ interactions_df' = None
    /\ name_to_id' = None
    /\ id_to_name' = None
    /\ PATIENTS_DB' = EmptyDict
    /\ FILES_DB' = EmptyDict
    /\ uploading' = EmptyBag
    /\ response' = NoResponse
    /\ trace' = NoTrace
    /\ UNCHANGED <<environment, patients_table, storage_dir, clock>>

NextRestart ==
    \/ load_data
    \/ RegisterNewPatient
    \/ UpdatePatientProfile
    \/ UploadBegin
    \/ UploadFinish
    \/ DeleteMedicalFile
    \/ GetPatients
    \/ GetPatientProfile
    \/ Restart
    \/ SendResponse

SpecRestart == InitFiles /\ [][NextRestart]_vars

-----------------------------------------------------------------------------
(* Vocabulary of the properties *)

Answered == response.op = "check_interactions"
Success == Answered /\ response.status = 200
Drugs == response.drugs
SwappedDrugs == <<Drugs[2], Drugs[1]>>

\* the reply to the same two drugs named in the other order
SwappedResponse ==
    check_interactions(interactions_df, name_to_id, id_to_name, SwappedDrugs)

\* the entries of the synonym dataset that list a name equal to s but for case
Listing(s) ==
    {e \in 1..Len(dataset_json) :
        \E n \in 1..Len(dataset_json[e].names) :
            lower(dataset_json[e].names[n]) = lower(s)}

LastListing(s) == CHOOSE e \in Listing(s) : \A f \in Listing(s) : f <= e

\* the positions of the request whose name is listed in the synonym dataset
ResolvingPositions == {n \in 1..Len(Drugs) : Listing(Drugs[n]) # {}}

\* the first name the synonym dataset lists for an identifier
PrimaryName(id) ==
    dataset_json[CHOOSE e \in 1..Len(dataset_json) : dataset_json[e].id = id].names[1]

\* the rows of the Interaction Table for the unordered pair {a, b}
RowsOf(a, b) ==
    {r \in 1..Len(interactions_df) :
        \/ interactions_df[r].Drug1ID = a /\ interactions_df[r].Drug2ID = b
        \/ interactions_df[r].Drug1ID = b /\ interactions_df[r].Drug2ID = a}

FirstRow(a, b) == CHOOSE r \in RowsOf(a, b) : \A q \in RowsOf(a, b) : r <= q

\* the description the table lookup selects for (a, b), None without a row
Selected(a, b) ==
    IF lookup(interactions_df, a, b) = <<>> THEN None
    ELSE first_description(lookup(interactions_df, a, b))

\* the lookups that found a row, in order: one per entry of interactions
FoundLookups == SelectSeq(trace.lookups, LAMBDA l : l.found)

\* the names of every letter case in use that equal s but for case
CaseVariants(s) == {v \in SynonymNames \cup RequestNames : lower(v) = lower(s)}

-----------------------------------------------------------------------------
(* C1 *)

\* C1: with n >= 2 resolved drugs the handler makes exactly C(n,2) table
\* lookups, no identifier is paired with itself and no unordered pair of
\* identifiers is looked up twice.
C1_EachPairOnce ==
    Success =>
        LET n == Len(trace.valid_ids)
            L == trace.lookups
        IN  /\ 2 * Len(L) = n * (n - 1)
            /\ \A k \in 1..Len(L) : L[k].id1 # L[k].id2
            /\ \A k1, k2 \in 1..Len(L) :
                  k1 < k2 => {L[k1].id1, L[k1].id2} # {L[k2].id1, L[k2].id2}

-----------------------------------------------------------------------------
(* C2 *)

\* C2: the table lookup selects the same description for (a,b) and (b,a),
\* whatever rows the table holds, and a request for two drugs reports a
\* finding exactly when the request naming them in the other order does.
C2_LookupSymmetric ==
    phase = "serving" =>
        /\ \A a, b \in Ids : Selected(a, b) = Selected(b, a)
        /\ (Answered /\ Len(Drugs) = 2) =>
              /\ SwappedResponse.status = response.status
              /\ response.status = 200 =>
                    (response.body.interactions # <<>>
                        <=> SwappedResponse.body.interactions # <<>>)

\* a finding for two drugs whose pair has rows of both orientations with
\* different descriptions
C2_Witness ==
    /\ Success
    /\ Len(Drugs) = 2
    /\ response.body.interactions # <<>>
    /\ \E r1, r2 \in 1..Len(interactions_df) :
          /\ interactions_df[r1].Drug1ID = trace.lookups[1].id1
          /\ interactions_df[r1].Drug2ID = trace.lookups[1].id2
          /\ interactions_df[r2].Drug1ID = trace.lookups[1].id2
          /\ interactions_df[r2].Drug2ID = trace.lookups[1].id1
          /\ interactions_df[r1].Drug1ID # interactions_df[r1].Drug2ID
          /\ interactions_df[r1].Interaction # interactions_df[r2].Interaction

-----------------------------------------------------------------------------
(* C3 *)

\* C3: in a successful response is_safe is false exactly when interactions
\* is non-empty, which is exactly when some pair of resolved identifiers has
\* a row in the Interaction Table.
C3_SafeIffNoInteraction ==
    Success =>
        /\ response.body.is_safe = FALSE <=> response.body.interactions # <<>>
        /\ response.body.interactions # <<>> <=>
              \E i, j \in 1..Len(trace.valid_ids) :
                  i < j /\ RowsOf(trace.valid_ids[i], trace.valid_ids[j]) # {}
        /\ response.body.is_safe = TRUE => response.body.interactions = <<>>

\* an unsafe answer: three drugs resolved, one pair of them in the table
C3_Witness ==
    /\ Success
    /\ Len(trace.valid_ids) = 3
    /\ response.body.is_safe = FALSE
    /\ Len(response.body.interactions) = 1

-----------------------------------------------------------------------------
(* C4 *)

\* C4: a request with fewer than 2 drugs ends in HTTP 400, and neither the
\* Synonym Index nor the Interaction Table is consulted.
C4_TooFewDrugsRejected ==
    (Answered /\ Len(Drugs) < 2) =>
        /\ response.status = 400
        /\ response.body = None
        /\ trace.resolved = <<>>
        /\ trace.lookups = <<>>

\* one drug that the Synonym Index knows, on a table that has rows
C4_Witness ==
    /\ Answered
    /\ Len(Drugs) = 1
    /\ Listing(Drugs[1]) # {}
    /\ interactions_df # <<>>
    /\ response.status = 400

-----------------------------------------------------------------------------
(* C5 *)

\* C5: a request with at least 2 names of which fewer than 2 resolve ends
\* in HTTP 404, never in a success response.
C5_TooFewResolvedNotFound ==
    (Answered /\ Len(Drugs) >= 2 /\ Cardinality(ResolvingPositions) < 2) =>
        /\ response.status = 404
        /\ response.body = None
        /\ trace.lookups = <<>>

\* three names of which exactly one resolves
C5_Witness ==
    /\ Answered
    /\ Len(Drugs) = 3
    /\ Cardinality(ResolvingPositions) = 1
    /\ response.status = 404

-----------------------------------------------------------------------------
(* C6 *)

\* the strings a success response carries
NamesInBody ==
    {response.body.checked_drugs[n] : n \in 1..Len(response.body.checked_drugs)}
    \cup UNION {{response.body.interactions[m].pair[1],
                 response.body.interactions[m].pair[2],
                 response.body.interactions[m].description} :
                    m \in 1..Len(response.body.interactions)}

\* C6: the response records which original names failed resolution: every
\* name that was dropped can be read off the response.
C6_DroppedNamesRecorded ==
    Success =>
        \A n \in 1..Len(Drugs) :
            n \notin ResolvingPositions => Drugs[n] \in NamesInBody

-----------------------------------------------------------------------------
(* C7 *)

\* C7 as stated: every synonym s of every identifier d, in any letter case,
\* and the primary name of d resolve to d, for every synonym dataset.
C7_SynonymResolvesToItsId ==
    phase = "serving" =>
        \A e \in 1..Len(dataset_json) :
            /\ get_id(name_to_id, dataset_json[e].names[1]) = dataset_json[e].id
            /\ \A n \in 1..Len(dataset_json[e].names) :
                  \A v \in CaseVariants(dataset_json[e].names[n]) :
                      get_id(name_to_id, v) = dataset_json[e].id

\* the names of entry e are listed, but for case, under no other identifier
OwnNames(e) ==
    \A n \in 1..Len(dataset_json[e].names) :
        Listing(dataset_json[e].names[n]) = {e}

\* C7 amended: a listed name, in any letter case, resolves to the last
\* identifier in dataset order that lists it; an identifier none of whose
\* names is listed under another identifier is what each of its synonyms
\* and its primary name resolve to.
C7_SynonymResolvesToLastListing ==
    phase = "serving" =>
        \A e \in 1..Len(dataset_json) :
            /\ \A n \in 1..Len(dataset_json[e].names) :
                  \A v \in CaseVariants(dataset_json[e].names[n]) :
                      get_id(name_to_id, v) = dataset_json[LastListing(v)].id
            /\ OwnNames(e) =>
                  \A n \in 1..Len(dataset_json[e].names) :
                      \A v \in CaseVariants(dataset_json[e].names[n]) :
                          /\ get_id(name_to_id, v) = dataset_json[e].id
                          /\ get_id(name_to_id, dataset_json[e].names[1])
                                = dataset_json[e].id

\* loaded: one identifier owns a two-letter-case name, and another name is
\* listed under both identifiers in different letter cases
C7_Witness ==
    /\ phase = "serving"
    /\ Len(dataset_json) = 2
    /\ dataset_json[1].names = <<<<"A">>, <<"(", ".", "*", ")">>>>
    /\ dataset_json[2].names = <<<<"a">>>>
    /\ get_id(name_to_id, <<"A">>) = D2
    /\ get_id(name_to_id, <<"(", ".", "*", ")">>) = D1

-----------------------------------------------------------------------------
(* C8 *)

\* one pass over the description: its first placeholder becomes name1, its
\* second placeholder becomes name2, everything else stays
SubstituteInOrder(description, name1, name2) ==
    LET p1 == find(description, Placeholder)
        rest == SubSeq(description, p1 + Len(Placeholder), Len(description))
        p2 == find(rest, Placeholder)
    IN  IF p1 = 0 THEN description
        ELSE SubSeq(description, 1, p1 - 1) \o name1 \o
             (IF p2 = 0 THEN rest
              ELSE SubSeq(rest, 1, p2 - 1) \o name2 \o
                   SubSeq(rest, p2 + Len(Placeholder), Len(rest)))

\* C8: the first placeholder of a found description is replaced by the
\* display name of the first drug of the pair, the second by that of the
\* second drug, inserted text is never substituted again, and a
\* description without placeholder is returned unchanged.
C8_PlaceholdersInOrder ==
    Success =>
        \A m \in 1..Len(FoundLookups) :
            response.body.interactions[m].description =
                SubstituteInOrder(FoundLookups[m].description,
                                  PrimaryName(FoundLookups[m].id1),
                                  PrimaryName(FoundLookups[m].id2))

-----------------------------------------------------------------------------
(* C9 *)

\* C9: the pair of every finding is the two primary display names in
\* ascending order, and the request naming two drugs in the other order
\* yields the same pair.
C9_PairSorted ==
    Success =>
        /\ Len(response.body.interactions) = Len(FoundLookups)
        /\ \A m \in 1..Len(FoundLookups) :
              LET pair == response.body.interactions[m].pair
                  name1 == PrimaryName(FoundLookups[m].id1)
                  name2 == PrimaryName(FoundLookups[m].id2)
              IN  /\ pair = <<name1, name2>> \/ pair = <<name2, name1>>
                  /\ ~ StrLess(pair[2], pair[1])
        /\ Len(Drugs) = 2 =>
              /\ SwappedResponse.status = 200
              /\ Len(SwappedResponse.body.interactions)
                    = Len(response.body.interactions)
              /\ \A m \in 1..Len(response.body.interactions) :
                    SwappedResponse.body.interactions[m].pair
                        = response.body.interactions[m].pair

\* a finding whose first drug has the greater display name
C9_Witness ==
    /\ Success
    /\ Len(Drugs) = 2
    /\ Len(FoundLookups) = 1
    /\ StrLess(PrimaryName(FoundLookups[1].id2), PrimaryName(FoundLookups[1].id1))
    /\ response.body.interactions[1].pair[1] = PrimaryName(FoundLookups[1].id2)

-----------------------------------------------------------------------------
(* C10 *)

\* C10: for a pair with several rows, of either orientation, the description
\* consulted is that of the first matching row in dataset order, whichever
\* way round the pair is queried, and it is the one the finding renders.
C10_FirstRowWins ==
    Answered =>
        /\ response.status = 200 =>
              Len(response.body.interactions) = Len(FoundLookups)
        /\ \A k \in 1..Len(trace.lookups) :
              LET l == trace.lookups[k]
              IN  /\ l.found <=> RowsOf(l.id1, l.id2) # {}
                  /\ l.found =>
                        /\ l.description =
                              dataset_csv[FirstRow(l.id1, l.id2)].Interaction
                        /\ Selected(l.id2, l.id1) = l.description
        /\ \A m \in 1..Len(FoundLookups) :
              LET l == FoundLookups[m]
              IN  response.status = 200 =>
                  response.body.interactions[m].description =
                      render(dataset_csv[FirstRow(l.id1, l.id2)].Interaction,
                             get_name(id_to_name, l.id1, l.id1),
                             get_name(id_to_name, l.id2, l.id2))

\* a pair found whose first row is stored the other way round than queried
\* and whose second row carries another description
C10_Witness ==
    /\ Success
    /\ \E k \in 1..Len(trace.lookups) :
          LET l == trace.lookups[k]
          IN  /\ l.found
              /\ l.id1 # l.id2
              /\ Cardinality(RowsOf(l.id1, l.id2)) >= 2
              /\ interactions_df[FirstRow(l.id1, l.id2)].Drug1ID = l.id2
              /\ \E r \in RowsOf(l.id1, l.id2) :
                    interactions_df[r].Interaction # l.description

-----------------------------------------------------------------------------
(* C11 *)

\* C11: no request handler changes the Synonym Index or the Interaction
\* Table: whatever check-interactions, search-drug, stats and
\* verify-prescription requests have been served, in whatever order, both
\* are what load_data built from the two dataset files.
C11_TablesAsLoaded ==
    phase = "serving" =>
        /\ interactions_df = read_interactions(dataset_csv)
        /\ name_to_id = build_name_to_id(dataset_json)
        /\ id_to_name = build_id_to_name(dataset_json)

\* a search for a term that is no key has just been answered with partial
\* matches, on tables that hold rows and names
C11_Witness ==
    /\ response.op = "search_drug"
    /\ response.body.found = FALSE
    /\ response.body.partial_matches # None
    /\ interactions_df # <<>>
    /\ name_to_id = build_name_to_id(dataset_json)

-----------------------------------------------------------------------------
(* C12 *)

\* C12: when a dataset file is missing or malformed, start-up ends in a
\* fatal error and no request is served; a request handler runs only on
\* tables that are loaded and usable, so no request fails because of bad
\* dataset content.
C12_FailFastOnBadDataset ==
    /\ phase = "failed" => response = NoResponse
    /\ Answered =>
          /\ phase = "serving"
          /\ interactions_df = read_interactions(dataset_csv)
          /\ \A r \in 1..Len(interactions_df) :
                interactions_df[r].Interaction # NaN
          /\ response.status # 500

-----------------------------------------------------------------------------
(* C13 *)

\* C13 as stated: a name resolves to identifier d if and only if its
\* lower-cased form equals the lower-cased form of a synonym of d.
C13_ResolvesIffSynonymOfId ==
    phase = "serving" =>
        \A name \in ServeNames :
            \A e \in 1..Len(dataset_json) :
                get_id(name_to_id, name) = dataset_json[e].id
                    <=> e \in Listing(name)

\* the identifiers the names of the request resolve to, in request order
ResolvedIds ==
    LET listed == SelectSeq(Drugs, LAMBDA name : Listing(name) # {})
    IN  [n \in 1..Len(listed) |-> dataset_json[LastListing(listed[n])].id]

\* C13 amended: a name resolves if and only if its lower-cased form equals
\* the lower-cased form of a listed synonym, and then to the last identifier
\* in dataset order that lists it; a name that is only a substring or a
\* superstring of a synonym does not resolve; an unknown name is dropped
\* without raising, the request ending in 200, 400 or 404.
C13_ResolvesIffListed ==
    /\ phase = "serving" =>
          \A name \in ServeNames :
              /\ Listing(name) = {} => get_id(name_to_id, name) = None
              /\ Listing(name) # {} =>
                    get_id(name_to_id, name) = dataset_json[LastListing(name)].id
    /\ Answered =>
          /\ response.status \in {200, 400, 404}
          /\ Len(Drugs) >= 2 => trace.valid_ids = ResolvedIds

\* three names: one that only contains a synonym, one that differs from a
\* synonym in case, and one listed under two identifiers; two resolve
C13_Witness ==
    /\ Success
    /\ Drugs = <<<<"b", "z">>, <<"B">>, <<"a", "b">>>>
    /\ get_id(name_to_id, <<"a">>) = None
    /\ \E i \in 1..Len(name_to_id) : find(name_to_id[i].key, <<"a">>) # 0
    /\ trace.valid_ids = <<D3, D2>>

-----------------------------------------------------------------------------
(* C14, C15 *)

Searched == response.op = "search_drug"
Term == response.drugs[1]

\* the positions of the Synonym Index whose key contains the term
ContainingKeys ==
    {i \in 1..Len(name_to_id) : find(name_to_id[i].key, lower(Term)) # 0}

\* the position of a key in the Synonym Index
KeyPosition(name) ==
    CHOOSE i \in 1..Len(name_to_id) : name_to_id[i].key = name

\* C14: a search for a term that equals a synonym but for case returns
\* found=true with the identifier that synonym resolves to, the primary
\* name of that identifier, and no partial-match list, even when other
\* synonyms contain the term.
C14_ExactMatchFound ==
    (Searched /\ Listing(Term) # {}) =>
        /\ response.status = 200
        /\ response.body.found = TRUE
        /\ response.body.drug_id = dataset_json[LastListing(Term)].id
        /\ response.body.primary_name = PrimaryName(response.body.drug_id)
        /\ response.body.search_term = Term
        /\ response.body.partial_matches = None

\* the term, in another letter case than listed, is a synonym and is
\* contained in three other synonyms
C14_Witness ==
    /\ Searched
    /\ Term = <<"B">>
    /\ Cardinality(ContainingKeys) = 4
    /\ response.body.found = TRUE
    /\ response.body.drug_id = D3

\* C15: a search for a term that is no synonym but is contained, but for
\* case, in at least one synonym returns found=false with a partial-match
\* list of at most 10 entries; every matched synonym contains the term; the
\* entries are the first matches in the order of the Synonym Index; and the
\* same request answered again gives the same list in the same order.
C15_PartialMatchesCapped ==
    (Searched /\ Listing(Term) = {} /\ ContainingKeys # {}) =>
        LET matches == response.body.partial_matches
            position(k) == KeyPosition(matches[k].matched_name)
        IN  /\ response.status = 200
            /\ response.body.found = FALSE
            /\ matches # None
            /\ Len(matches) <= PartialMatchLimit
            /\ Len(matches) = Cardinality(ContainingKeys)
                  \/ Len(matches) = PartialMatchLimit
            /\ \A k \in 1..Len(matches) :
                  /\ find(matches[k].matched_name, lower(Term)) # 0
                  /\ matches[k].drug_id = name_to_id[position(k)].value
                  /\ matches[k].primary_name = PrimaryName(matches[k].drug_id)
                  /\ k > 1 => position(k - 1) < position(k)
                  /\ \A i \in ContainingKeys :
                        i < position(k) =>
                            \E j \in 1..(k - 1) : position(j) = i
            /\ search_drug(name_to_id, id_to_name, Term).body.partial_matches
                  = matches

\* eleven synonyms contain the term: ten are listed, the last one is cut
C15_Witness ==
    /\ Searched
    /\ Listing(Term) = {}
    /\ Cardinality(ContainingKeys) = PartialMatchLimit + 1
    /\ Len(response.body.partial_matches) = PartialMatchLimit
    /\ response.body.message = <<"Found ", PartialMatchLimit + 1, " partial matches">>

-----------------------------------------------------------------------------
(* C20 *)

Verified == response.op = "verify_prescription"

\* C20: every successful verify-prescription response has overall equal to
\* green, yellow or red, and each of its alerts carries severity, message
\* and recommendation, whatever the external model returned.
C20_OverallIsTrafficLight ==
    (Verified /\ response.status = 200) =>
        /\ response.body.overall \in {"green", "yellow", "red"}
        /\ \A k \in 1..Len(response.body.alerts) :
              {"severity", "message", "recommendation"}
                  \subseteq DOMAIN response.body.alerts[k]

-----------------------------------------------------------------------------
(* C16 *)

Uploaded == response.op = "upload_medical_file"
UploadedFile == response.drugs[2]

\* C16: an upload whose extension is not one of .pdf .txt .doc .docx .jpg
\* .png, or whose content is larger than 10 MB, is rejected with a 4xx
\* error that carries a reason.
C16_InvalidUploadIs4xx ==
    (Uploaded /\ \/ lower_ext(splitext_ext(UploadedFile.filename))
                        \notin allowed_extensions
                 \/ UploadedFile.size > MaxFileSize) =>
        /\ response.status \in 400..499
        /\ response.detail # ""

-----------------------------------------------------------------------------
(* C17 *)

PatientOps == {"get_patient_profile", "get_patient_files",
               "generate_patient_summary", "chat_with_ai_about_patient"}

\* the request answered in this step names a patient id or a file id that
\* the stores do not hold when it arrives
AnswersUnknownId ==
    /\ response = NoResponse
    /\ \/ /\ response'.op \in PatientOps
          /\ response'.drugs[1] \notin DOMAIN PATIENTS_DB
       \/ /\ response'.op = "delete_medical_file"
          /\ response'.drugs[1] \notin DOMAIN FILES_DB

\* C17 as stated: get profile, list files, generate summary, chat and
\* delete file, addressed to an unknown patient id or file id, end in 404
\* and change no stored state.
C17_UnknownIdIs404 ==
    [][AnswersUnknownId => (response'.status = 404 /\ UNCHANGED stores)]_vars

\* C17 amended: get profile, generate summary and chat addressed to an
\* unknown patient id, and delete file addressed to an unknown file id, end
\* in 404; list files addressed to an unknown patient id ends in 200 with an
\* empty file list; none of the five changes stored state.
C17_UnknownIdIs404OrEmptyList ==
    [][AnswersUnknownId =>
          /\ UNCHANGED stores
          /\ IF response'.op = "get_patient_files"
             THEN response'.status = 200 /\ response'.body.files = <<>>
             ELSE response'.status = 404 /\ response'.body = None]_vars

\* a profile asked for a patient id that is unknown while another patient
\* has a profile and a file
C17_Witness ==
    /\ response.op = "get_patient_profile"
    /\ response.drugs[1] \notin DOMAIN PATIENTS_DB
    /\ response.status = 404
    /\ DOMAIN FILES_DB # {}

-----------------------------------------------------------------------------
(* C18 *)

Summarized == response.op = "generate_patient_summary"
Chatted == response.op = "chat_with_ai_about_patient"

\* C18: verify-prescription, generate patient summary and patient
\* chat, requested while the model credentials are missing, end in an
\* error response, never in a success response, and the external model is
\* not called.
C18_MissingKeyIsError ==
    ((Verified \/ Summarized \/ Chatted) /\ ~api_key) =>
        /\ response.status >= 400
        /\ trace.model_calls = 0

-----------------------------------------------------------------------------
(* C19 *)

\* the positions of the text the model returned that are neither white
\* space nor a code fence nor the language tag of a fence
ReturnedPositions ==
    {i \in 1..Len(trace.reply.text) :
        /\ trace.reply.text[i] \notin WhiteSpace \cup {Fence}
        /\ ~(/\ trace.reply.text[i] = "json"
             /\ i > 1
             /\ trace.reply.text[i - 1] = Fence)}

\* what is left of the text, position by position
ReturnedText ==
    [k \in 1..Cardinality(ReturnedPositions) |->
        trace.reply.text[CHOOSE i \in ReturnedPositions :
            Cardinality({j \in ReturnedPositions : j < i}) = k - 1]]

\* the text is one JSON document
IsDocument == Len(ReturnedText) = 1 /\ ReturnedText[1] \in Documents

\* the model was called and returned a text
ModelReturnedText == trace.model_calls >= 1 /\ ~trace.reply.raised

\* the returned text is a JSON object with overall and alerts, each alert
\* with its three fields
ShapeOfVerification ==
    /\ IsDocument
    /\ ReturnedText[1] \in {DocGreen, DocRed, DocPurple}

\* the returned text is a JSON object with a summary
ShapeOfSummary == IsDocument /\ ReturnedText[1] = DocSummary

\* C19 as stated: in verify-prescription and in generate patient summary,
\* model output that is not valid JSON of the expected shape ends in an
\* error response, after one call of the model and without a success
\* response.
C19_MalformedOutputIsError ==
    /\ (Verified /\ ModelReturnedText /\ ~ShapeOfVerification) =>
          response.status >= 400 /\ trace.model_calls = 1
    /\ (Summarized /\ ModelReturnedText /\ ~ShapeOfSummary) =>
          response.status >= 400 /\ trace.model_calls = 1

\* C19 amended: the model is called once, without retry.  In
\* verify-prescription, output that is not a JSON object with overall and
\* alerts ends in HTTP 500.  In generate patient summary, output that is no
\* JSON ends in a success response whose summary is the returned text;
\* a JSON object without the summary fields ends in a success response with
\* default fields; JSON that is no object ends in HTTP 500.
C19_MalformedOutputIsErrorOrFallback ==
    /\ (Verified /\ ModelReturnedText) =>
          /\ trace.model_calls = 1
          /\ ~ShapeOfVerification =>
                response.status = 500 /\ response.body = None
    /\ (Summarized /\ ModelReturnedText) =>
          /\ trace.model_calls = 1
          /\ ~IsDocument =>
                /\ response.status = 200
                /\ response.body.summary = clean_response(trace.reply.text)
                /\ response.body.key_findings = <<"AI analysis completed">>
          /\ (IsDocument /\ ReturnedText[1] = DocList) =>
                response.status = 500 /\ response.body = None
          /\ (IsDocument /\ ReturnedText[1] = DocNoSummary) =>
                /\ response.status = 200
                /\ response.body.summary = "Summary generated"
                /\ response.body.key_findings = <<>>

\* a summary request answered with prose by the model: a success response
\* that carries the prose
C19_Witness ==
    /\ Summarized
    /\ ModelReturnedText
    /\ trace.reply.text = <<Sorry>>
    /\ response.status = 200
    /\ response.body.summary = <<Sorry>>

-----------------------------------------------------------------------------
(* C21 *)

\* a GET request for statistics has been answered, and the path it named
StatsRequested == response.op \in {"get_stats", "not_found"}
StatsPathOf == response.drugs[1]

\* the canonical identifiers and the interaction rows of the datasets
LoadedIds == {dataset_json[e].id : e \in 1..Len(dataset_json)}

\* what the statistics handler answers from the loaded datasets
StatsOfLoaded ==
    /\ response.op = "get_stats"
    /\ response.status = 200
    /\ response.body.total_drugs = Cardinality(LoadedIds)
    /\ response.body.total_interactions = Len(dataset_csv)

\* C21 (as stated): a GET request to /api/v1/stats is served by the
\* statistics handler and returns total_drugs equal to the number of
\* canonical identifiers loaded and total_interactions equal to the number of
\* interaction rows loaded.
C21_StatsUnderApiPrefix ==
    (StatsRequested /\ StatsPathOf = "/api/v1/stats") => StatsOfLoaded

\* C21 (amended): a GET request to /stats is served by the statistics handler
\* and returns total_drugs equal to the number of canonical identifiers
\* loaded and total_interactions equal to the number of interaction rows
\* loaded.
C21_StatsAtRoot ==
    (StatsRequested /\ StatsPathOf = "/stats") => StatsOfLoaded

\* statistics were served from /stats for a dataset whose identifiers, names
\* and rows all differ in number
C21_Witness ==
    /\ StatsRequested
    /\ StatsPathOf = "/stats"
    /\ response.status = 200
    /\ response.body.total_drugs = 2
    /\ response.body.total_interactions = 2
    /\ Len(name_to_id) = 3

-----------------------------------------------------------------------------
(* C22 *)

\* how often a file id occurs in a list of files
Occurrences(files, file_id) ==
    Cardinality({k \in 1..Len(files) : files[k].id = file_id})

\* the patients whose medical_files list holds the file id
Holders(file_id) ==
    {p \in DOMAIN PATIENTS_DB :
        Occurrences(PATIENTS_DB[p].medical_files, file_id) > 0}

Deleted == response.op = "delete_medical_file" /\ response.status = 200

\* C22: a file id is a key of the file store if and only if the file occurs
\* exactly once in the medical_files list of the patient its record names,
\* and it occurs in no other patient's list; after a successful delete the
\* file id is in neither, also when removing the bytes from disk failed.
C22_FileStoreMatchesLists ==
    /\ \A file_id \in FileIds :
          /\ file_id \in DOMAIN FILES_DB =>
                /\ FILES_DB[file_id].id = file_id
                /\ Holders(file_id) = {FILES_DB[file_id].patient_id}
                /\ Occurrences(
                       PATIENTS_DB[FILES_DB[file_id].patient_id].medical_files,
                       file_id) = 1
          /\ file_id \notin DOMAIN FILES_DB => Holders(file_id) = {}
    /\ Deleted =>
          /\ response.drugs[1] \notin DOMAIN FILES_DB
          /\ Holders(response.drugs[1]) = {}

\* a file was deleted while its bytes stayed on disk, and another file is
\* still held by the store and by its patient's list
C22_Witness ==
    /\ Deleted
    /\ \E name \in {f.filename : f \in UploadFiles} :
          BagIn(<<response.drugs[1], name>>, storage_dir)
    /\ \E file_id \in DOMAIN FILES_DB :
          Holders(file_id) = {FILES_DB[file_id].patient_id}

-----------------------------------------------------------------------------
(* C23 *)

ProfileRequested == response.op = "get_patient_profile"
Listed == response.op = "get_patients"

\* C23: after any sequence of register, update-profile, upload and
\* delete-file operations and process restarts, every patient id returned by
\* list-patients can be fetched by get-patient-profile without a 404: every
\* id in the persistent patient table has an in-memory profile, and every
\* in-memory profile has a row in the table.
C23_ListedPatientsHaveProfiles ==
    /\ phase = "serving" => DOMAIN patients_table = DOMAIN PATIENTS_DB
    /\ Listed =>
          \A k \in 1..Len(response.body.patients) :
              get_patient_profile(
                  PATIENTS_DB, response.body.patients[k].patient_id).status
                  # 404
    /\ (ProfileRequested /\ response.drugs[1] \in DOMAIN patients_table) =>
          response.status # 404

-----------------------------------------------------------------------------
(* C25, C26 *)

\* C25: the creation timestamp stored for a patient id is set when the id is
\* first inserted into the patient table and is never changed by later
\* register, update-profile or upload operations on that id.
C25_CreatedAtNeverChanges ==
    [][\A patient_id \in DOMAIN patients_table :
          /\ patient_id \in DOMAIN patients_table'
          /\ patients_table'[patient_id].created_at =
                patients_table[patient_id].created_at]_vars

\* an upload has just been answered with success
UploadAnswered ==
    /\ response = NoResponse
    /\ response'.op = "upload_medical_file"
    /\ response'.status = 200

\* C26: uploading a file for a patient id that already has a row in the
\* persistent patient table leaves that row's name unchanged, in every
\* reachable state, including after a process restart that emptied the
\* in-memory profiles.
C26_UploadKeepsName ==
    [][(UploadAnswered /\ response'.drugs[1] \in DOMAIN patients_table) =>
          patients_table'[response'.drugs[1]].name =
              patients_table[response'.drugs[1]].name]_vars

-----------------------------------------------------------------------------
(* C24 *)

\* the file and the patient of the upload that has just been answered
NewFileId == response'.body.file_id
UploadPatient == response'.drugs[1]

\* C24: for any interleaving of concurrent upload requests for the same
\* patient id, including an id that has no profile yet, each file ends up in
\* the file store and in that patient's medical_files list: an upload that
\* is answered with success has added its record to both, and has left every
\* record and every profile that another upload stored as it was, the
\* patient's list only growing by the new record.
C24_ConcurrentUploadsKeepAll ==
    [][UploadAnswered =>
          /\ NewFileId \in DOMAIN FILES_DB'
          /\ NewFileId \notin DOMAIN FILES_DB
          /\ FILES_DB'[NewFileId].patient_id = UploadPatient
          /\ Occurrences(PATIENTS_DB'[UploadPatient].medical_files,
                         NewFileId) = 1
          /\ \A file_id \in DOMAIN FILES_DB :
                /\ file_id \in DOMAIN FILES_DB'
                /\ FILES_DB'[file_id] = FILES_DB[file_id]
          /\ \A patient_id \in DOMAIN PATIENTS_DB :
                /\ patient_id \in DOMAIN PATIENTS_DB'
                /\ PATIENTS_DB'[patient_id].medical_files =
                      IF patient_id = UploadPatient
                      THEN Append(PATIENTS_DB[patient_id].medical_files,
                                  FILES_DB'[NewFileId])
                      ELSE PATIENTS_DB[patient_id].medical_files]_vars

\* two uploads for a patient without a profile were suspended together; the
\* one answered last began while the patient had no profile, before the
\* other stored its record and created the profile, and the
\* patient's list holds both files
C24_Witness ==
    /\ response.op = "upload_medical_file"
    /\ response.status = 200
    /\ response.body.file_id = 1
    /\ ~trace.known
    /\ DOMAIN FILES_DB = {0, 1}
    /\ DOMAIN PATIENTS_DB = {response.drugs[1]}
    /\ Len(PATIENTS_DB[response.drugs[1]].medical_files) = 2

-----------------------------------------------------------------------------
(* C27 *)

\* what check-interactions answers for the list that was verified
ResolverAnswer ==
    check_interactions(interactions_df, name_to_id, id_to_name, response.drugs)

\* the pairs of the verified list for which the table holds a row
FoundOfVerified ==
    SelectSeq(lookups_of(interactions_df, trace.valid_ids),
              LAMBDA l : l.found)

\* C27 (as stated): the findings that verify-prescription obtains from its
\* internal check are the same sequence of (pair, description) entries that
\* check-interactions returns for the list when at least 2 names resolve,
\* and the empty list when fewer than 2 resolve.
C27_InternalCheckIsResolver ==
    (Verified /\ Len(response.drugs) >= 1) =>
        IF Len(trace.valid_ids) >= 2
        THEN /\ ResolverAnswer.status = 200
             /\ trace.interactions = ResolverAnswer.body.interactions
        ELSE trace.interactions = <<>>

\* C27 (amended): the findings of the internal check are the resolver's but
\* for the descriptions: the same sequence of pairs that check-interactions
\* returns when at least 2 names resolve, each with the description of the
\* first matching row as the table stores it, placeholders not substituted,
\* where the resolver returns that description with the placeholders
\* substituted; and the empty list when fewer than 2 resolve.
C27_InternalCheckKeepsPlaceholders ==
    (Verified /\ Len(response.drugs) >= 1) =>
        IF Len(trace.valid_ids) >= 2
        THEN /\ ResolverAnswer.status = 200
             /\ Len(trace.interactions) = Len(FoundOfVerified)
             /\ Len(ResolverAnswer.body.interactions) = Len(FoundOfVerified)
             /\ \A k \in 1..Len(FoundOfVerified) :
                   /\ trace.interactions[k].pair =
                         ResolverAnswer.body.interactions[k].pair
                   /\ trace.interactions[k].description =
                         FoundOfVerified[k].description
                   /\ ResolverAnswer.body.interactions[k].description =
                         render(FoundOfVerified[k].description,
                                get_name(id_to_name, FoundOfVerified[k].id1,
                                         FoundOfVerified[k].id1),
                                get_name(id_to_name, FoundOfVerified[k].id2,
                                         FoundOfVerified[k].id2))
        ELSE trace.interactions = <<>>

\* a list of two drugs was verified whose row holds placeholders: the
\* internal check kept them, the resolver substitutes the names
C27_Witness ==
    /\ Verified
    /\ Len(trace.valid_ids) = 2
    /\ Len(trace.interactions) = 1
    /\ find(trace.interactions[1].description, Placeholder) # 0
    /\ ResolverAnswer.body.interactions[1].description
          # trace.interactions[1].description
    /\ ResolverAnswer.body.interactions[1].pair = trace.interactions[1].pair

-----------------------------------------------------------------------------
(* C28 *)

\* the patient and the file ids of the summary request that was answered
SummaryPatient == response.drugs[1]
RequestedIds == response.drugs[2]

\* the ids of the files that the handler combined into the prompt
CombinedIds == {trace.combined_text[k].id : k \in 1..Len(trace.combined_text)}

\* the ids of the stored files of the patient that the request selects
SelectedIds ==
    {file_id \in DOMAIN FILES_DB :
        /\ FILES_DB[file_id].patient_id = SummaryPatient
        /\ RequestedIds = {} \/ file_id \in RequestedIds}

\* C28: generate-summary for patient P uses only files of P's own file list:
\* with file_ids absent or empty all of P's files, otherwise exactly P's
\* files whose id is in file_ids, those of them that hold text giving their
\* text to the prompt and their filename to files_processed; a requested id
\* that belongs to another patient's file never contributes either.
C28_SummaryUsesOwnFiles ==
    Summarized =>
        /\ \A file_id \in CombinedIds :
              /\ file_id \in DOMAIN FILES_DB
              /\ FILES_DB[file_id].patient_id = SummaryPatient
        /\ CombinedIds =
              {file_id \in SelectedIds : FILES_DB[file_id].extracted_text # <<>>}
        /\ \A k \in 1..Len(trace.combined_text) :
              trace.combined_text[k] = FILES_DB[trace.combined_text[k].id]
        /\ response.status = 200 =>
              response.body.files_processed =
                  [k \in 1..Len(trace.combined_text) |->
                      trace.combined_text[k].filename]

\* a summary of one patient was requested with the id of an own file and the
\* id of another patient's file, both with text: one file was processed
C28_Witness ==
    /\ Summarized
    /\ response.status = 200
    /\ RequestedIds = {0, 1}
    /\ DOMAIN FILES_DB = {0, 1}
    /\ FILES_DB[0].patient_id # FILES_DB[1].patient_id
    /\ FILES_DB[0].extracted_text # <<>>
    /\ FILES_DB[1].extracted_text # <<>>
    /\ Len(response.body.files_processed) = 1
    /\ Cardinality(CombinedIds) = 1

-----------------------------------------------------------------------------
(* C29 *)

\* the lookups of an identifier with itself, and the other ones
SelfLookups ==
    {k \in 1..Len(trace.lookups) : trace.lookups[k].id1 = trace.lookups[k].id2}
OtherLookups == (1..Len(trace.lookups)) \ SelfLookups

\* duplicates are kept: each resolving name has its entry in the resolved
\* list and in checked_drugs, and two positions with one identifier are
\* looked up as a pair
DuplicatesKept ==
    /\ Len(trace.valid_ids) = Cardinality(ResolvingPositions)
    /\ Len(response.body.checked_drugs) = Len(trace.valid_ids)
    /\ \A i, j \in 1..Len(trace.valid_ids) :
          (i < j /\ trace.valid_ids[i] = trace.valid_ids[j]) =>
              \E k \in SelfLookups :
                  trace.lookups[k].i = i /\ trace.lookups[k].j = j

\* C29 (as stated): when the list names one drug more than once the resolver
\* does not de-duplicate: both entries stay in the resolved list and in
\* checked_drugs, the identifier is paired with itself, and that self-pair
\* adds no entry to interactions and does not change is_safe.
C29_SelfPairIsNoOp ==
    Success =>
        /\ DuplicatesKept
        /\ \A k \in SelfLookups : ~trace.lookups[k].found
        /\ Len(response.body.interactions) =
              Cardinality({k \in OtherLookups : trace.lookups[k].found})
        /\ response.body.is_safe =
              (\A k \in OtherLookups : ~trace.lookups[k].found)

\* C29 (amended): the resolver does not de-duplicate: both entries stay in
\* the resolved list and in checked_drugs, the identifier is paired with
\* itself, and that self-pair is looked up like any other pair: it adds no
\* entry to interactions and does not change is_safe unless the table holds
\* a row of the identifier with itself, and then it adds that row's entry
\* and is_safe is false.
C29_SelfPairIsLookedUp ==
    Success =>
        /\ DuplicatesKept
        /\ \A k \in SelfLookups :
              trace.lookups[k].found =
                  (RowsOf(trace.lookups[k].id1, trace.lookups[k].id1) # {})
        /\ Len(response.body.interactions) =
              Cardinality({k \in 1..Len(trace.lookups) : trace.lookups[k].found})
        /\ response.body.is_safe =
              (\A k \in 1..Len(trace.lookups) : ~trace.lookups[k].found)

\* a drug was named twice in a list of three resolving names: the self-pair
\* found the row of the identifier with itself and is the only finding
C29_Witness ==
    /\ Success
    /\ Len(trace.valid_ids) = 3
    /\ \E k \in SelfLookups : trace.lookups[k].found
    /\ \A k \in OtherLookups : ~trace.lookups[k].found
    /\ Len(response.body.interactions) = 1
    /\ response.body.is_safe = FALSE
    /\ response.drugs[1] # response.drugs[2]

====
